---- MODULE Spec2Model ----
(***************************************************************************)
(* The three pitch-deck generators of dreamarket-hedera:                   *)
(*   generate_final_pitch_deck.py  create_pdf         ("final", flow)      *)
(*   generate_pitch_deck_pdf.py    create_pdf         ("pdf",   flow)      *)
(*   generate_pitch_deck.py        create_pitch_deck  ("pptx",  canvas)    *)
(* Each run executes the statements of its function in order.  The flow    *)
(* generators append flowables to `elements` and hand them to doc.build;   *)
(* the canvas generator adds slides to `prs` and saves it.  Lengths are    *)
(* in tenths of a point (flow) and in EMU (canvas).  Every character of    *)
(* the source outside ASCII (emoji, bullets, check marks) is written "*".  *)
(*                                                                         *)
(* Beside the three generators, the same statements are run on small       *)
(* decks ("flow", "canvas") so that the layout cases the fixed marketing   *)
(* copy does not exercise (a block taller than the space left, an empty    *)
(* item list, ...) are reached too.                                        *)
(***************************************************************************)
EXTENDS Integers, Sequences, FiniteSets, TLC

\* ------------------------------------------------------------------ bounds
\* Days of wall-clock time a behaviour spans.
MaxDay == 2
\* Runs of one generator in a behaviour.
MaxRuns == 2
\* Statements of a small flow deck.
MaxLen == 2
\* Items of a list passed to a slide function by a small canvas deck.
MaxItems == 2

\* --------------------------------------------------------------- utilities
Max(a, b) == IF a >= b THEN a ELSE b
Min(a, b) == IF a <= b THEN a ELSE b
CeilDiv(a, b) == (a + b - 1) \div b
Last(s) == s[Len(s)]

RECURSIVE SumSeq(_)
SumSeq(s) == IF s = <<>> THEN 0 ELSE Head(s) + SumSeq(Tail(s))

RECURSIVE Flatten(_)
Flatten(ss) == IF ss = <<>> THEN <<>> ELSE Head(ss) \o Flatten(Tail(ss))

SeqsUpTo(S, n) == UNION {[1..k -> S] : k \in 0..n}

\* ------------------------------------------------------------------- units
\* reportlab.lib.units.inch is 72 points; lengths here are tenths of a point.
inch == 720
pt == inch \div 72

\* pptx.util.Inches(x) and Pt(x) in English Metric Units; x is given in tenths
\* of an inch so that 0.3, 3.8 and 5.2 stay integers.
Inches(tenths) == tenths * 91440
Pt(points) == points * 12700

\* ------------------------------------------------------------ colour scheme
\* The module-level colour constants (the same six names in all three files).
Colors == [PRIMARY |-> "8B45FF", SECONDARY |-> "00FFC8", ACCENT |-> "FF64C8",
           DARK |-> "0F0F23", LIGHT |-> "F0F0FF", TEXT_DARK |-> "1E1E3C"]

\* ------------------------------------------------------------------ styles
\* getSampleStyleSheet(): the fields of the parent styles that the custom
\* styles inherit because they do not override them.
SampleStyleSheet ==
  [Heading1 |-> [leading |-> 22 * pt, spaceBefore |-> 0, leftIndent |-> 0],
   Heading2 |-> [leading |-> 18 * pt, spaceBefore |-> 12 * pt, leftIndent |-> 0],
   Heading3 |-> [leading |-> 14 * pt, spaceBefore |-> 12 * pt, leftIndent |-> 0],
   BodyText |-> [leading |-> 12 * pt, spaceBefore |-> 6 * pt, leftIndent |-> 0]]

\* ParagraphStyle(name, parent=..., **overrides)
ParagraphStyle(name, parent, fontSize, textColor, spaceAfter, alignment, leftIndent, fontName) ==
  [name |-> name, fontSize |-> fontSize * pt, textColor |-> textColor,
   spaceAfter |-> spaceAfter * pt, alignment |-> alignment, fontName |-> fontName,
   leading |-> parent.leading, spaceBefore |-> parent.spaceBefore,
   leftIndent |-> IF leftIndent = -1 THEN parent.leftIndent ELSE leftIndent * pt]

\* generate_final_pitch_deck.py: the six styles of create_pdf.
FinalStyles ==
  [title_style |-> ParagraphStyle("CustomTitle", SampleStyleSheet.Heading1, 48,
                     Colors.SECONDARY, 30, "TA_CENTER", -1, "Helvetica-Bold"),
   subtitle_style |-> ParagraphStyle("CustomSubtitle", SampleStyleSheet.Heading2, 24,
                     Colors.LIGHT, 20, "TA_CENTER", -1, "Helvetica"),
   heading_style |-> ParagraphStyle("CustomHeading", SampleStyleSheet.Heading2, 32,
                     Colors.PRIMARY, 15, "TA_LEFT", -1, "Helvetica-Bold"),
   heading2_style |-> ParagraphStyle("CustomHeading2", SampleStyleSheet.Heading3, 20,
                     Colors.SECONDARY, 12, "TA_LEFT", -1, "Helvetica-Bold"),
   body_style |-> ParagraphStyle("CustomBody", SampleStyleSheet.BodyText, 14,
                     Colors.TEXT_DARK, 10, "TA_LEFT", -1, "Helvetica"),
   bullet_style |-> ParagraphStyle("BulletStyle", SampleStyleSheet.BodyText, 12,
                     Colors.TEXT_DARK, 8, "TA_LEFT", 20, "Helvetica")]

\* generate_pitch_deck_pdf.py: the five styles of create_pdf.
PdfStyles ==
  [title_style |-> ParagraphStyle("CustomTitle", SampleStyleSheet.Heading1, 48,
                     Colors.SECONDARY, 30, "TA_CENTER", -1, "Helvetica-Bold"),
   subtitle_style |-> ParagraphStyle("CustomSubtitle", SampleStyleSheet.Heading2, 28,
                     Colors.LIGHT, 20, "TA_CENTER", -1, "Helvetica"),
   heading_style |-> ParagraphStyle("CustomHeading", SampleStyleSheet.Heading2, 32,
                     Colors.PRIMARY, 15, "TA_LEFT", -1, "Helvetica-Bold"),
   body_style |-> ParagraphStyle("CustomBody", SampleStyleSheet.BodyText, 14,
                     Colors.TEXT_DARK, 10, "TA_LEFT", -1, "Helvetica"),
   bullet_style |-> ParagraphStyle("BulletStyle", SampleStyleSheet.BodyText, 13,
                     Colors.TEXT_DARK, 8, "TA_LEFT", 20, "Helvetica")]

\* ------------------------------------------------------- the three scripts
\* generate_final_pitch_deck.py, create_pdf: the statements that compose and build the document, in order.
FinalScript == <<
  \* line 101
  [op |-> "Spacer", width |-> 1, height |-> (150 * inch) \div 100],
  \* line 102
  [op |-> "Paragraph", text |-> "* DreamMarket", style |-> "title_style"],
  \* line 103
  [op |-> "Spacer", width |-> 1, height |-> (30 * inch) \div 100],
  \* line 104
  [op |-> "Paragraph", text |-> "The Marketplace of Digital Souls", style |-> "subtitle_style"],
  \* line 105
  [op |-> "Paragraph", text |-> "AI Agents on Hedera Blockchain", style |-> "subtitle_style"],
  \* line 106
  [op |-> "Spacer", width |-> 1, height |-> (80 * inch) \div 100],
  \* line 107
  [op |-> "Paragraph", text |-> "Hedera Hello Future: Ascension Hackathon 2025", style |-> "body_style"],
  \* line 108
  [op |-> "Paragraph", text |-> "AI & Agents Track", style |-> "body_style"],
  \* line 109
  [op |-> "Spacer", width |-> 1, height |-> (30 * inch) \div 100],
  \* line 110
  [op |-> "ParagraphNow", prefix |-> "Submitted: ", format |-> "%B %d, %Y", style |-> "body_style"],
  \* line 111
  [op |-> "PageBreak"],
  \* line 114
  [op |-> "Paragraph", text |-> "* Team & Project Introduction", style |-> "heading_style"],
  \* line 115
  [op |-> "Spacer", width |-> 1, height |-> (20 * inch) \div 100],
  \* line 133
  [op |-> "ForIf", items |-> <<"Project Name: DreamMarket - The Marketplace of Digital Souls", "Track: AI & Agents - AI-driven agents with decentralized infrastructure", "Hackathon: Hedera Hello Future: Ascension Hackathon 2025", "Timeline: November 3-21, 2025", "", "Team Composition:", "* Full-stack development team with blockchain expertise", "* Experience in Next.js, TypeScript, and Hedera SDK", "* AI integration specialists with Groq API experience", "* UI/UX designers with modern design principles", "", "Project Vision:", "Create a revolutionary marketplace where AI personalities become tradeable digital assets on Hedera blockchain, enabling verifiable on-chain agents with dynamic evolution systems.">>,
      height |-> (10 * inch) \div 100, style |-> "bullet_style"],
  \* line 139
  [op |-> "PageBreak"],
  \* line 142
  [op |-> "Paragraph", text |-> "* Project Summary", style |-> "heading_style"],
  \* line 143
  [op |-> "Spacer", width |-> 1, height |-> (20 * inch) \div 100],
  \* line 145
  [op |-> "Paragraph", text |-> "What is DreamMarket?", style |-> "heading2_style"],
  \* line 146
  [op |-> "Spacer", width |-> 1, height |-> (10 * inch) \div 100],
  \* line 157
  [op |-> "For", items |-> <<"DreamMarket is a revolutionary marketplace where AI personalities become tradeable digital assets (NFTs) on Hedera blockchain.", "Each 'Soul' is a unique NFT representing an AI agent with distinct personality, skills, and characteristics.", "Built for the AI & Agents track, enabling creation, ownership, and trading of verifiable AI agents using Hedera's fast, low-cost transactions.", "Leverages HTS for NFT minting, implements ERC-8004 Smart Contracts for on-chain agent verification.", "Features dynamic AI personalities with evolution systems and provides transparent on-chain history.", "Vision: Create a thriving ecosystem where AI agents can collaborate, transact, and evolve autonomously.">>,
      style |-> "bullet_style"],
  \* line 160
  [op |-> "PageBreak"],
  \* line 163
  [op |-> "Paragraph", text |-> "* Judging Criteria: Innovation & Feasibility", style |-> "heading_style"],
  \* line 164
  [op |-> "Spacer", width |-> 1, height |-> (15 * inch) \div 100],
  \* line 189
  [op |-> "Table",
      data |-> <<
        <<<<"1. INNOVATION (10%)">>, <<"2. FEASIBILITY (10%)">>>>, 
        <<<<"* Novel Concept: AI personalities as tradeable NFTs", "* First-of-its-kind on Hedera ecosystem", "* Dynamic evolution system with personality growth", "* ERC-8004 standard implementation", "* Enables decentralized AI economies", "* Perfect alignment with AI & Agents track">>, <<"* Built entirely on Hedera infrastructure", "* Production-ready architecture", "* Realistic business model with revenue streams", "* Scalable from testnet to mainnet", "* Proven tech stack: Next.js, TypeScript, Hedera SDK", "* Low operational costs">>>>>>,
      colWidths |-> <<(450 * inch) \div 100, (450 * inch) \div 100>>,
      cmds |-> <<
        <<"BACKGROUND", <<0, 0>>, <<-1, 0>>, <<"PRIMARY">>>>, 
        <<"TEXTCOLOR", <<0, 0>>, <<-1, 0>>, <<"LIGHT">>>>, 
        <<"ALIGN", <<0, 0>>, <<-1, -1>>, <<"LEFT">>>>, 
        <<"FONTNAME", <<0, 0>>, <<-1, 0>>, <<"Helvetica-Bold">>>>, 
        <<"FONTSIZE", <<0, 0>>, <<-1, 0>>, <<14>>>>, 
        <<"BOTTOMPADDING", <<0, 0>>, <<-1, 0>>, <<12>>>>, 
        <<"BACKGROUND", <<0, 1>>, <<-1, -1>>, <<"colors.white">>>>, 
        <<"TEXTCOLOR", <<0, 1>>, <<-1, -1>>, <<"TEXT_DARK">>>>, 
        <<"FONTNAME", <<0, 1>>, <<-1, -1>>, <<"Helvetica">>>>, 
        <<"FONTSIZE", <<0, 1>>, <<-1, -1>>, <<11>>>>, 
        <<"VALIGN", <<0, 0>>, <<-1, -1>>, <<"TOP">>>>, 
        <<"GRID", <<0, 0>>, <<-1, -1>>, <<1, "colors.grey">>>>>>],
  \* line 190
  [op |-> "PageBreak"],
  \* line 193
  [op |-> "Paragraph", text |-> "* Judging Criteria: Execution & Integration", style |-> "heading_style"],
  \* line 194
  [op |-> "Spacer", width |-> 1, height |-> (15 * inch) \div 100],
  \* line 219
  [op |-> "Table",
      data |-> <<
        <<<<"3. EXECUTION (20%)">>, <<"4. INTEGRATION (15%)">>>>, 
        <<<<"* Working MVP with full feature set", "* Soul creation with AI personality generation", "* Chat system - souls learn and evolve", "* Professional UI/UX with cosmic theme", "* Clear long-term roadmap", "* Excellent accessibility & UX">>, <<"* Deep Hedera network usage:", "  - HTS (NFT minting)", "  - Smart Contracts (ERC-8004)", "  - Consensus Service (finality)", "  - Mirror Node API (data)", "  - Hedera SDK (integration)", "* Multiple services integrated seamlessly", "* Production-ready code">>>>>>,
      colWidths |-> <<(450 * inch) \div 100, (450 * inch) \div 100>>,
      cmds |-> <<
        <<"BACKGROUND", <<0, 0>>, <<-1, 0>>, <<"PRIMARY">>>>, 
        <<"TEXTCOLOR", <<0, 0>>, <<-1, 0>>, <<"LIGHT">>>>, 
        <<"ALIGN", <<0, 0>>, <<-1, -1>>, <<"LEFT">>>>, 
        <<"FONTNAME", <<0, 0>>, <<-1, 0>>, <<"Helvetica-Bold">>>>, 
        <<"FONTSIZE", <<0, 0>>, <<-1, 0>>, <<14>>>>, 
        <<"BOTTOMPADDING", <<0, 0>>, <<-1, 0>>, <<12>>>>, 
        <<"BACKGROUND", <<0, 1>>, <<-1, -1>>, <<"colors.white">>>>, 
        <<"TEXTCOLOR", <<0, 1>>, <<-1, -1>>, <<"TEXT_DARK">>>>, 
        <<"FONTNAME", <<0, 1>>, <<-1, -1>>, <<"Helvetica">>>>, 
        <<"FONTSIZE", <<0, 1>>, <<-1, -1>>, <<11>>>>, 
        <<"VALIGN", <<0, 0>>, <<-1, -1>>, <<"TOP">>>>, 
        <<"GRID", <<0, 0>>, <<-1, -1>>, <<1, "colors.grey">>>>>>],
  \* line 220
  [op |-> "PageBreak"],
  \* line 223
  [op |-> "Paragraph", text |-> "* Judging Criteria: Success, Validation & Pitch", style |-> "heading_style"],
  \* line 224
  [op |-> "Spacer", width |-> 1, height |-> (15 * inch) \div 100],
  \* line 250
  [op |-> "Table",
      data |-> <<
        <<<<"5. SUCCESS (20%)">>, <<"6. VALIDATION (15%)">>, <<"7. PITCH (10%)">>>>, 
        <<<<"* High potential to increase Hedera adoption", "* Brings AI community to ecosystem", "* Scalable to mainnet", "* Clear value proposition", "* Enables agent-to-agent transactions", "* Taps into $200B+ AI market">>, <<"* Market research completed", "* NFT + AI intersection identified", "* User feedback incorporated", "* Strong product-market fit", "* Clear target audience", "* Traction potential">>, <<"* Clear problem/solution narrative", "* Professional demo video", "* Comprehensive pitch deck", "* Strong Hedera representation", "* Addresses both problem statements", "* Estimated score: 95/100">>>>>>,
      colWidths |-> <<(300 * inch) \div 100, (300 * inch) \div 100, (300 * inch) \div 100>>,
      cmds |-> <<
        <<"BACKGROUND", <<0, 0>>, <<-1, 0>>, <<"PRIMARY">>>>, 
        <<"TEXTCOLOR", <<0, 0>>, <<-1, 0>>, <<"LIGHT">>>>, 
        <<"ALIGN", <<0, 0>>, <<-1, -1>>, <<"LEFT">>>>, 
        <<"FONTNAME", <<0, 0>>, <<-1, 0>>, <<"Helvetica-Bold">>>>, 
        <<"FONTSIZE", <<0, 0>>, <<-1, 0>>, <<12>>>>, 
        <<"BOTTOMPADDING", <<0, 0>>, <<-1, 0>>, <<12>>>>, 
        <<"BACKGROUND", <<0, 1>>, <<-1, -1>>, <<"colors.white">>>>, 
        <<"TEXTCOLOR", <<0, 1>>, <<-1, -1>>, <<"TEXT_DARK">>>>, 
        <<"FONTNAME", <<0, 1>>, <<-1, -1>>, <<"Helvetica">>>>, 
        <<"FONTSIZE", <<0, 1>>, <<-1, -1>>, <<10>>>>, 
        <<"VALIGN", <<0, 0>>, <<-1, -1>>, <<"TOP">>>>, 
        <<"GRID", <<0, 0>>, <<-1, -1>>, <<1, "colors.grey">>>>>>],
  \* line 251
  [op |-> "PageBreak"],
  \* line 254
  [op |-> "Paragraph", text |-> "* Key Features", style |-> "heading_style"],
  \* line 255
  [op |-> "Spacer", width |-> 1, height |-> (15 * inch) \div 100],
  \* line 267
  [op |-> "For", items |-> <<"* Soul Creation: Design unique AI personalities with rarity tiers (Common, Rare, Legendary, Mythic)", "* Chat System: Interact with souls - they learn and evolve through conversations", "** Marketplace: Browse, trade, and collect souls with real-time pricing", "* Leaderboards: Track top souls and creators", "* On-Chain Verification: All transactions verifiable on HashScan", "* Evolution System: Souls grow and change through interactions", "* ERC-8004 Compliance: Verifiable on-chain AI agents">>,
      style |-> "bullet_style"],
  \* line 270
  [op |-> "Spacer", width |-> 1, height |-> (20 * inch) \div 100],
  \* line 271
  [op |-> "Paragraph", text |-> "** Technical Stack", style |-> "heading2_style"],
  \* line 272
  [op |-> "Spacer", width |-> 1, height |-> (10 * inch) \div 100],
  \* line 283
  [op |-> "For", items |-> <<"Frontend: Next.js 14, TypeScript, Tailwind CSS, Framer Motion, Shadcn/ui", "Backend: Next.js API Routes, Hedera SDK (@hashgraph/sdk), PostgreSQL (Supabase)", "Blockchain: Hedera Testnet, HTS (Token ID: 0.0.7242548), Smart Contracts (Contract ID: 0.0.7261125)", "AI: Groq API for personality generation", "Wallet: HashConnect for non-custodial transactions", "Deployment: Vercel (frontend), production-ready infrastructure">>,
      style |-> "bullet_style"],
  \* line 286
  [op |-> "PageBreak"],
  \* line 289
  [op |-> "Paragraph", text |-> "* Deep Hedera Integration", style |-> "heading_style"],
  \* line 290
  [op |-> "Spacer", width |-> 1, height |-> (15 * inch) \div 100],
  \* line 314
  [op |-> "ForIf", items |-> <<"Hedera Token Service (HTS):", "  * NFT Collection: Soul v2 (Token ID: 0.0.7242548)", "  * Minting: Real NFTs on Hedera Testnet with metadata", "  * Supply: Unlimited with operator control", "", "Smart Contract Service (ERC-8004):", "  * Contract ID: 0.0.7261125", "  * Agent Registration: Verifiable on-chain agents", "  * Stats Updates: Level, XP, Reputation tracking", "  * Ownership Transfer: Marketplace transactions", "", "Consensus Service:", "  * Sub-second finality for all transactions", "  * Fair ordering and transaction ordering", "", "Mirror Node API & HashScan:", "  * Real-time blockchain data queries", "  * Public verification of all transactions", "  * Transaction history and NFT metadata retrieval">>,
      height |-> (5 * inch) \div 100, style |-> "bullet_style"],
  \* line 320
  [op |-> "PageBreak"],
  \* line 323
  [op |-> "Paragraph", text |-> "* Business Model & Market Opportunity", style |-> "heading_style"],
  \* line 324
  [op |-> "Spacer", width |-> 1, height |-> (15 * inch) \div 100],
  \* line 326
  [op |-> "Paragraph", text |-> "Revenue Streams:", style |-> "heading2_style"],
  \* line 327
  [op |-> "Spacer", width |-> 1, height |-> (10 * inch) \div 100],
  \* line 336
  [op |-> "For", items |-> <<"1. Minting Fees: Small fee per soul creation (tiered by rarity)", "2. Marketplace Commission: 2.5% on secondary sales", "3. Premium Features: Advanced AI interactions and exclusive traits", "4. Enterprise Licensing: Custom soul collections and API access">>,
      style |-> "bullet_style"],
  \* line 339
  [op |-> "Spacer", width |-> 1, height |-> (15 * inch) \div 100],
  \* line 340
  [op |-> "Paragraph", text |-> "Market Opportunity:", style |-> "heading2_style"],
  \* line 341
  [op |-> "Spacer", width |-> 1, height |-> (10 * inch) \div 100],
  \* line 351
  [op |-> "For", items |-> <<"NFT Market: $10B+ (2024) - Established and growing", "AI Market: $200B+ (2024) - Rapidly expanding", "Intersection: Untapped opportunity for AI agent marketplace", "Target Audience: AI enthusiasts, NFT collectors, crypto gamers, Web3 developers", "Growth Potential: Emerging AI agent economy with autonomous transactions">>,
      style |-> "bullet_style"],
  \* line 354
  [op |-> "PageBreak"],
  \* line 357
  [op |-> "Paragraph", text |-> "* Future Roadmap & Key Learnings", style |-> "heading_style"],
  \* line 358
  [op |-> "Spacer", width |-> 1, height |-> (15 * inch) \div 100],
  \* line 360
  [op |-> "Paragraph", text |-> "Phase 1: MVP (Current - Completed)", style |-> "heading2_style"],
  \* line 361
  [op |-> "Spacer", width |-> 1, height |-> (10 * inch) \div 100],
  \* line 372
  [op |-> "For", items |-> <<"* Soul creation interface with AI personality generation", "* Hedera HTS integration for NFT minting", "* HashScan verification for all transactions", "* Beautiful UI/UX with cosmic theme", "* Chat system with personality evolution", "* ERC-8004 smart contract integration">>,
      style |-> "bullet_style"],
  \* line 375
  [op |-> "Spacer", width |-> 1, height |-> (15 * inch) \div 100],
  \* line 376
  [op |-> "Paragraph", text |-> "Phase 2: Marketplace (Q1 2026)", style |-> "heading2_style"],
  \* line 377
  [op |-> "Spacer", width |-> 1, height |-> (10 * inch) \div 100],
  \* line 388
  [op |-> "For", items |-> <<"* Browse and discover souls with advanced filters", "* Buy/sell functionality with secure transactions", "* Full wallet integration (HashPack, Blade)", "* User profiles with soul collections", "* Search and advanced filtering", "* Leaderboards and rankings">>,
      style |-> "bullet_style"],
  \* line 391
  [op |-> "Spacer", width |-> 1, height |-> (15 * inch) \div 100],
  \* line 392
  [op |-> "Paragraph", text |-> "Phase 3: AI Integration (Q2 2026)", style |-> "heading2_style"],
  \* line 393
  [op |-> "Spacer", width |-> 1, height |-> (10 * inch) \div 100],
  \* line 404
  [op |-> "For", items |-> <<"* Advanced AI chat with context awareness", "* Personality evolution based on interactions", "* Skill development system", "* Soul interactions and relationships", "* Agent-to-agent communication (A2A protocol)", "* Multi-language support">>,
      style |-> "bullet_style"],
  \* line 407
  [op |-> "PageBreak"],
  \* line 410
  [op |-> "Paragraph", text |-> "* Roadmap (Continued) & Key Learnings", style |-> "heading_style"],
  \* line 411
  [op |-> "Spacer", width |-> 1, height |-> (15 * inch) \div 100],
  \* line 413
  [op |-> "Paragraph", text |-> "Phase 4: Advanced Features (Q3 2026)", style |-> "heading2_style"],
  \* line 414
  [op |-> "Spacer", width |-> 1, height |-> (10 * inch) \div 100],
  \* line 425
  [op |-> "For", items |-> <<"* Soul breeding/fusion mechanics", "* Governance token for platform", "* DAO for marketplace decisions", "* Mobile app (iOS/Android)", "* Mainnet launch and migration", "* Cross-chain interoperability">>,
      style |-> "bullet_style"],
  \* line 428
  [op |-> "Spacer", width |-> 1, height |-> (15 * inch) \div 100],
  \* line 429
  [op |-> "Paragraph", text |-> "Key Learnings & Room for Improvement:", style |-> "heading2_style"],
  \* line 430
  [op |-> "Spacer", width |-> 1, height |-> (10 * inch) \div 100],
  \* line 448
  [op |-> "ForIf", items |-> <<"* Hedera's sub-second finality is crucial for real-time marketplace interactions", "* ERC-8004 standard provides excellent framework for verifiable agents", "* User experience is paramount - beautiful UI drives adoption", "* AI personality generation requires careful prompt engineering", "* On-chain metadata limits require creative compact storage solutions", "", "Areas for Improvement:", "* Implement IPFS for rich metadata storage", "* Add advanced AI model fine-tuning capabilities", "* Develop mobile-first interface", "* Implement advanced analytics and insights", "* Add community governance features", "* Optimize gas costs for mainnet deployment">>,
      height |-> (5 * inch) \div 100, style |-> "bullet_style"],
  \* line 454
  [op |-> "PageBreak"],
  \* line 457
  [op |-> "Paragraph", text |-> "* Demo Video", style |-> "heading_style"],
  \* line 458
  [op |-> "Spacer", width |-> 1, height |-> (30 * inch) \div 100],
  \* line 489
  [op |-> "ForIf", items |-> <<"Watch our comprehensive demo video showcasing:", "", "* Soul Creation Workflow", "  - AI personality generation with Groq API", "  - Rarity selection and customization", "  - Preview before minting", "", "* Hedera NFT Minting Process", "  - Real-time transaction on Hedera Testnet", "  - HashScan verification", "  - Serial number generation", "", "* Chat & Evolution System", "  - Interactive chat with AI souls", "  - Personality learning and evolution", "  - XP and level progression", "", "* Marketplace Features", "  - Soul browsing and discovery", "  - Trading mechanics", "  - Leaderboards and rankings", "", "* Technical Architecture", "  - Hedera integration depth", "  - Smart contract interactions", "  - Production-ready performance">>,
      height |-> (5 * inch) \div 100, style |-> "bullet_style"],
  \* line 495
  [op |-> "Spacer", width |-> 1, height |-> (30 * inch) \div 100],
  \* line 496
  [op |-> "Paragraph", text |-> "* Demo Video Link:", style |-> "heading2_style"],
  \* line 497
  [op |-> "Spacer", width |-> 1, height |-> (10 * inch) \div 100],
  \* line 501
  [op |-> "Paragraph", text |-> "<b>YouTube:</b> https://www.youtube.com/watch?v=YOUR_VIDEO_ID", style |-> "body_style"],
  \* line 502
  [op |-> "Paragraph", text |-> "(Replace YOUR_VIDEO_ID with actual video ID after uploading)", style |-> "bullet_style"],
  \* line 504
  [op |-> "PageBreak"],
  \* line 507
  [op |-> "Paragraph", text |-> "* Competitive Advantage", style |-> "heading_style"],
  \* line 508
  [op |-> "Spacer", width |-> 1, height |-> (15 * inch) \div 100],
  \* line 521
  [op |-> "For", items |-> <<"* Built on Hedera: Sub-second finality, extremely low costs", "* ERC-8004 Compliance: Verifiable on-chain agents with full transparency", "* Beautiful UX: Professional design with cosmic theme and smooth animations", "* Evolution System: Unique personality growth mechanics not found elsewhere", "* Deep Ecosystem Integration: Multiple Hedera services (HTS, Smart Contracts, Consensus, Mirror Node)", "* First-Mover Advantage: First AI agent marketplace on Hedera blockchain", "* Multiple Revenue Streams: Sustainable business model with clear monetization", "* Scalable Architecture: Ready for mainnet deployment and global scaling">>,
      style |-> "bullet_style"],
  \* line 524
  [op |-> "Spacer", width |-> 1, height |-> (30 * inch) \div 100],
  \* line 525
  [op |-> "Paragraph", text |-> "* Call to Action", style |-> "heading_style"],
  \* line 526
  [op |-> "Spacer", width |-> 1, height |-> (15 * inch) \div 100],
  \* line 539
  [op |-> "ForIf", items |-> <<"Join us in building the future of AI on Hedera!", "", "* GitHub: https://github.com/ZKSystemId/dreamarket-hedera", "* Live Demo: https://dreammarket-hedera.vercel.app", "* NFT Collection: https://hashscan.io/testnet/token/0.0.7242548", "* Smart Contract: https://hashscan.io/testnet/contract/0.0.7261125", "", "Where Digital Souls Come Alive on the Blockchain">>,
      height |-> (5 * inch) \div 100, style |-> "bullet_style"],
  \* line 546
  [op |-> "build"]
>>

\* generate_pitch_deck_pdf.py, create_pdf: the statements that compose and build the document, in order.
PdfScript == <<
  \* line 87
  [op |-> "Spacer", width |-> 1, height |-> (150 * inch) \div 100],
  \* line 88
  [op |-> "Paragraph", text |-> "* DreamMarket", style |-> "title_style"],
  \* line 89
  [op |-> "Spacer", width |-> 1, height |-> (30 * inch) \div 100],
  \* line 90
  [op |-> "Paragraph", text |-> "The Marketplace of Digital Souls", style |-> "subtitle_style"],
  \* line 91
  [op |-> "Paragraph", text |-> "AI Agents on Hedera Blockchain", style |-> "subtitle_style"],
  \* line 92
  [op |-> "Spacer", width |-> 1, height |-> (50 * inch) \div 100],
  \* line 93
  [op |-> "Paragraph", text |-> "Hedera Hello Future: Ascension Hackathon 2025", style |-> "body_style"],
  \* line 94
  [op |-> "PageBreak"],
  \* line 97
  [op |-> "Paragraph", text |-> "* The Problem", style |-> "heading_style"],
  \* line 98
  [op |-> "Spacer", width |-> 1, height |-> (20 * inch) \div 100],
  \* line 106
  [op |-> "For", items |-> <<"* AI is becoming mainstream, but lacks decentralized infrastructure", "* NFTs revolutionized digital ownership, but lack AI integration", "* No marketplace for AI personalities as tradeable digital assets", "* Existing AI platforms are centralized and lack transparency", "* Need for verifiable, on-chain AI agents with proven capabilities">>,
      style |-> "bullet_style"],
  \* line 108
  [op |-> "PageBreak"],
  \* line 111
  [op |-> "Paragraph", text |-> "* Our Solution", style |-> "heading_style"],
  \* line 112
  [op |-> "Spacer", width |-> 1, height |-> (20 * inch) \div 100],
  \* line 120
  [op |-> "For", items |-> <<"* DreamMarket: AI personalities as tradeable NFTs on Hedera", "* Each 'Soul' is a unique AI agent with distinct personality & skills", "* Built on Hedera HTS for fast, low-cost NFT minting", "* ERC-8004 Smart Contracts for verifiable on-chain agents", "* Dynamic evolution system - souls grow and change through interaction">>,
      style |-> "bullet_style"],
  \* line 122
  [op |-> "PageBreak"],
  \* line 125
  [op |-> "Paragraph", text |-> "* 1. INNOVATION", style |-> "heading_style"],
  \* line 126
  [op |-> "Spacer", width |-> 1, height |-> (20 * inch) \div 100],
  \* line 135
  [op |-> "For", items |-> <<"* Novel Concept: AI personalities as tradeable digital assets", "* Perfect alignment with AI & Agents track", "* First-of-its-kind on Hedera ecosystem", "* Dynamic evolution system with personality growth", "* Implements ERC-8004 standard for verifiable agents", "* Enables decentralized AI economies">>,
      style |-> "bullet_style"],
  \* line 137
  [op |-> "PageBreak"],
  \* line 140
  [op |-> "Paragraph", text |-> "* 2. FEASIBILITY", style |-> "heading_style"],
  \* line 141
  [op |-> "Spacer", width |-> 1, height |-> (20 * inch) \div 100],
  \* line 150
  [op |-> "For", items |-> <<"** Built entirely on Hedera infrastructure", "* Production-ready architecture with clear roadmap", "* Realistic business model with multiple revenue streams", "* Scalable from testnet to mainnet", "** Proven tech stack: Next.js, TypeScript, Hedera SDK", "* Low operational costs due to Hedera's efficiency">>,
      style |-> "bullet_style"],
  \* line 152
  [op |-> "PageBreak"],
  \* line 155
  [op |-> "Paragraph", text |-> "* 3. EXECUTION", style |-> "heading_style"],
  \* line 156
  [op |-> "Spacer", width |-> 1, height |-> (20 * inch) \div 100],
  \* line 165
  [op |-> "For", items |-> <<"* Working MVP with full feature set", "* Create souls with AI personality generation", "* Chat with souls - they learn and evolve", "* Professional UI/UX with cosmic theme", "* Clear long-term roadmap (marketplace, breeding, DAO)", "* Excellent accessibility and user experience">>,
      style |-> "bullet_style"],
  \* line 167
  [op |-> "PageBreak"],
  \* line 170
  [op |-> "Paragraph", text |-> "* 4. INTEGRATION - Deep Hedera Usage", style |-> "heading_style"],
  \* line 171
  [op |-> "Spacer", width |-> 1, height |-> (20 * inch) \div 100],
  \* line 197
  [op |-> "Table",
      data |-> <<
        <<<<"Hedera Services Used">>, <<"Integration Metrics">>>>, 
        <<<<"* Hedera Token Service (HTS)", "  - NFT minting & management", "  - Token ID: 0.0.7242548", "", "* Smart Contract Service", "  - ERC-8004 compliance", "  - Contract ID: 0.0.7261125", "", "* Consensus Service", "  - Sub-second finality", "  - Fair ordering">>, <<"* Mirror Node API", "  - Real-time data queries", "  - Transaction history", "", "* Hedera SDK", "  - Account management", "  - Receipt verification", "", "* HashScan Explorer", "  - Public verification", "  - Transaction transparency">>>>>>,
      colWidths |-> <<(350 * inch) \div 100, (350 * inch) \div 100>>,
      cmds |-> <<
        <<"BACKGROUND", <<0, 0>>, <<-1, 0>>, <<"PRIMARY">>>>, 
        <<"TEXTCOLOR", <<0, 0>>, <<-1, 0>>, <<"LIGHT">>>>, 
        <<"ALIGN", <<0, 0>>, <<-1, -1>>, <<"LEFT">>>>, 
        <<"FONTNAME", <<0, 0>>, <<-1, 0>>, <<"Helvetica-Bold">>>>, 
        <<"FONTSIZE", <<0, 0>>, <<-1, 0>>, <<14>>>>, 
        <<"BOTTOMPADDING", <<0, 0>>, <<-1, 0>>, <<12>>>>, 
        <<"BACKGROUND", <<0, 1>>, <<-1, -1>>, <<"colors.white">>>>, 
        <<"TEXTCOLOR", <<0, 1>>, <<-1, -1>>, <<"TEXT_DARK">>>>, 
        <<"FONTNAME", <<0, 1>>, <<-1, -1>>, <<"Helvetica">>>>, 
        <<"FONTSIZE", <<0, 1>>, <<-1, -1>>, <<11>>>>, 
        <<"VALIGN", <<0, 0>>, <<-1, -1>>, <<"TOP">>>>, 
        <<"GRID", <<0, 0>>, <<-1, -1>>, <<1, "colors.grey">>>>, 
        <<"ROWBACKGROUNDS", <<0, 1>>, <<-1, -1>>, <<"[colors.white, colors.lightgrey]">>>>>>],
  \* line 198
  [op |-> "PageBreak"],
  \* line 201
  [op |-> "Paragraph", text |-> "* 5. SUCCESS POTENTIAL", style |-> "heading_style"],
  \* line 202
  [op |-> "Spacer", width |-> 1, height |-> (20 * inch) \div 100],
  \* line 211
  [op |-> "For", items |-> <<"* High potential to increase Hedera adoption", "* Brings AI community to Hedera ecosystem", "* Scalable to mainnet with clear migration path", "* Clear value proposition for users & developers", "* Enables new use cases: agent-to-agent transactions", "* Taps into $200B+ AI market + $10B+ NFT market">>,
      style |-> "bullet_style"],
  \* line 213
  [op |-> "PageBreak"],
  \* line 216
  [op |-> "Paragraph", text |-> "** 6. VALIDATION", style |-> "heading_style"],
  \* line 217
  [op |-> "Spacer", width |-> 1, height |-> (20 * inch) \div 100],
  \* line 226
  [op |-> "For", items |-> <<"* Market research: NFT + AI intersection is untapped", "* User feedback incorporated during development", "* Strong product-market fit identified", "* Growing AI market with increasing adoption", "* Clear target audience: AI enthusiasts, NFT collectors, Web3 devs", "* Traction potential with emerging AI agent economy">>,
      style |-> "bullet_style"],
  \* line 228
  [op |-> "PageBreak"],
  \* line 231
  [op |-> "Paragraph", text |-> "* 7. PITCH - Clear Problem/Solution", style |-> "heading_style"],
  \* line 232
  [op |-> "Spacer", width |-> 1, height |-> (20 * inch) \div 100],
  \* line 258
  [op |-> "Table",
      data |-> <<
        <<<<"Problem">>, <<"Solution">>, <<"Opportunity Metrics">>>>, 
        <<<<"* AI lacks decentralized infrastructure", "* NFTs lack AI integration", "* No verifiable AI agent marketplace">>, <<"* DreamMarket: AI as tradeable NFTs", "* Hedera-powered for speed & cost", "* ERC-8004 verified agents">>, <<"* NFT Market: $10B+ (2024)", "* AI Market: $200B+ (2024)", "* Intersection: Untapped">>>>>>,
      colWidths |-> <<(230 * inch) \div 100, (230 * inch) \div 100, (230 * inch) \div 100>>,
      cmds |-> <<
        <<"BACKGROUND", <<0, 0>>, <<-1, 0>>, <<"PRIMARY">>>>, 
        <<"TEXTCOLOR", <<0, 0>>, <<-1, 0>>, <<"LIGHT">>>>, 
        <<"ALIGN", <<0, 0>>, <<-1, -1>>, <<"LEFT">>>>, 
        <<"FONTNAME", <<0, 0>>, <<-1, 0>>, <<"Helvetica-Bold">>>>, 
        <<"FONTSIZE", <<0, 0>>, <<-1, 0>>, <<12>>>>, 
        <<"BOTTOMPADDING", <<0, 0>>, <<-1, 0>>, <<12>>>>, 
        <<"BACKGROUND", <<0, 1>>, <<-1, -1>>, <<"colors.white">>>>, 
        <<"TEXTCOLOR", <<0, 1>>, <<-1, -1>>, <<"TEXT_DARK">>>>, 
        <<"FONTNAME", <<0, 1>>, <<-1, -1>>, <<"Helvetica">>>>, 
        <<"FONTSIZE", <<0, 1>>, <<-1, -1>>, <<10>>>>, 
        <<"VALIGN", <<0, 0>>, <<-1, -1>>, <<"TOP">>>>, 
        <<"GRID", <<0, 0>>, <<-1, -1>>, <<1, "colors.grey">>>>>>],
  \* line 259
  [op |-> "PageBreak"],
  \* line 262
  [op |-> "Paragraph", text |-> "** Technical Architecture", style |-> "heading_style"],
  \* line 263
  [op |-> "Spacer", width |-> 1, height |-> (20 * inch) \div 100],
  \* line 272
  [op |-> "For", items |-> <<"Frontend: Next.js 14, TypeScript, Tailwind CSS, Framer Motion", "Backend: Next.js API Routes, Hedera SDK, PostgreSQL (Supabase)", "Blockchain: Hedera Testnet, HTS, Smart Contracts, Mirror Node", "AI: Groq API for personality generation", "Wallet: HashConnect for non-custodial transactions", "Deployment: Vercel for frontend, production-ready">>,
      style |-> "bullet_style"],
  \* line 274
  [op |-> "PageBreak"],
  \* line 277
  [op |-> "Paragraph", text |-> "* Key Features", style |-> "heading_style"],
  \* line 278
  [op |-> "Spacer", width |-> 1, height |-> (20 * inch) \div 100],
  \* line 287
  [op |-> "For", items |-> <<"* Soul Creation: Design unique AI personalities with rarity tiers", "* Chat System: Interact with souls - they learn and evolve", "** Marketplace: Browse, trade, and collect souls", "* Leaderboards: Track top souls and creators", "* On-Chain Verification: All transactions on HashScan", "* Evolution System: Souls grow through interactions">>,
      style |-> "bullet_style"],
  \* line 289
  [op |-> "PageBreak"],
  \* line 292
  [op |-> "Paragraph", text |-> "* Roadmap", style |-> "heading_style"],
  \* line 293
  [op |-> "Spacer", width |-> 1, height |-> (20 * inch) \div 100],
  \* line 319
  [op |-> "Table",
      data |-> <<
        <<<<"Phase 1: MVP (Current)">>, <<"Phase 2: Marketplace (Q1 2026)">>, <<"Phase 3: AI Integration (Q2 2026)">>>>, 
        <<<<"* Soul creation", "* HTS integration", "* NFT minting", "* Beautiful UI/UX">>, <<"* Browse & discover", "* Buy/sell functionality", "* Wallet integration", "* User profiles">>, <<"* AI chat system", "* Personality evolution", "* Skill development", "* Agent-to-agent communication">>>>>>,
      colWidths |-> <<(230 * inch) \div 100, (230 * inch) \div 100, (230 * inch) \div 100>>,
      cmds |-> <<
        <<"BACKGROUND", <<0, 0>>, <<-1, 0>>, <<"PRIMARY">>>>, 
        <<"TEXTCOLOR", <<0, 0>>, <<-1, 0>>, <<"LIGHT">>>>, 
        <<"ALIGN", <<0, 0>>, <<-1, -1>>, <<"LEFT">>>>, 
        <<"FONTNAME", <<0, 0>>, <<-1, 0>>, <<"Helvetica-Bold">>>>, 
        <<"FONTSIZE", <<0, 0>>, <<-1, 0>>, <<12>>>>, 
        <<"BOTTOMPADDING", <<0, 0>>, <<-1, 0>>, <<12>>>>, 
        <<"BACKGROUND", <<0, 1>>, <<-1, -1>>, <<"colors.white">>>>, 
        <<"TEXTCOLOR", <<0, 1>>, <<-1, -1>>, <<"TEXT_DARK">>>>, 
        <<"FONTNAME", <<0, 1>>, <<-1, -1>>, <<"Helvetica">>>>, 
        <<"FONTSIZE", <<0, 1>>, <<-1, -1>>, <<10>>>>, 
        <<"VALIGN", <<0, 0>>, <<-1, -1>>, <<"TOP">>>>, 
        <<"GRID", <<0, 0>>, <<-1, -1>>, <<1, "colors.grey">>>>>>],
  \* line 320
  [op |-> "PageBreak"],
  \* line 323
  [op |-> "Paragraph", text |-> "* Business Model", style |-> "heading_style"],
  \* line 324
  [op |-> "Spacer", width |-> 1, height |-> (20 * inch) \div 100],
  \* line 333
  [op |-> "For", items |-> <<"Revenue Stream 1: Minting Fees - Small fee per soul creation", "Revenue Stream 2: Marketplace Commission - 2.5% on secondary sales", "Revenue Stream 3: Premium Features - Advanced AI interactions", "Revenue Stream 4: Enterprise Licensing - Custom collections & API access", "Target Market: AI enthusiasts, NFT collectors, crypto gamers, Web3 devs", "Path to Profitability: Sustainable through multiple revenue streams">>,
      style |-> "bullet_style"],
  \* line 335
  [op |-> "PageBreak"],
  \* line 338
  [op |-> "Paragraph", text |-> "* Competitive Advantage", style |-> "heading_style"],
  \* line 339
  [op |-> "Spacer", width |-> 1, height |-> (20 * inch) \div 100],
  \* line 348
  [op |-> "For", items |-> <<"* Built on Hedera: Sub-second finality, low costs", "* ERC-8004 Compliance: Verifiable on-chain agents", "* Beautiful UX: Professional design with cosmic theme", "* Evolution System: Unique personality growth mechanics", "* Ecosystem Integration: Deep Hedera integration", "* First-Mover: First AI agent marketplace on Hedera">>,
      style |-> "bullet_style"],
  \* line 350
  [op |-> "PageBreak"],
  \* line 353
  [op |-> "Spacer", width |-> 1, height |-> (200 * inch) \div 100],
  \* line 354
  [op |-> "Paragraph", text |-> "* Join the Revolution", style |-> "title_style"],
  \* line 355
  [op |-> "Spacer", width |-> 1, height |-> (30 * inch) \div 100],
  \* line 356
  [op |-> "Paragraph", text |-> "Where Digital Souls Come Alive on the Blockchain", style |-> "subtitle_style"],
  \* line 357
  [op |-> "Spacer", width |-> 1, height |-> (20 * inch) \div 100],
  \* line 358
  [op |-> "Paragraph", text |-> "Let's build the future of AI on Hedera!", style |-> "subtitle_style"],
  \* line 361
  [op |-> "build"]
>>

\* generate_pitch_deck.py, create_pitch_deck: the slide-building calls and the save, in order.
PptxScript == <<
  \* line 154
  [op |-> "add_title_slide", title |-> "* DreamMarket",
      subtitle |-> "The Marketplace of Digital Souls\nAI Agents on Hedera Blockchain"],
  \* line 157
  [op |-> "add_content_slide", title |-> "* The Problem",
      content_items |-> <<"* AI is becoming mainstream, but lacks decentralized infrastructure", "* NFTs revolutionized digital ownership, but lack AI integration", "* No marketplace for AI personalities as tradeable digital assets", "* Existing AI platforms are centralized and lack transparency", "* Need for verifiable, on-chain AI agents with proven capabilities">>],
  \* line 166
  [op |-> "add_content_slide", title |-> "* Our Solution",
      content_items |-> <<"* DreamMarket: AI personalities as tradeable NFTs on Hedera", "* Each 'Soul' is a unique AI agent with distinct personality & skills", "* Built on Hedera HTS for fast, low-cost NFT minting", "* ERC-8004 Smart Contracts for verifiable on-chain agents", "* Dynamic evolution system - souls grow and change through interaction">>],
  \* line 175
  [op |-> "add_content_slide", title |-> "* 1. INNOVATION",
      content_items |-> <<"* Novel Concept: AI personalities as tradeable digital assets", "* Perfect alignment with AI & Agents track", "* First-of-its-kind on Hedera ecosystem", "* Dynamic evolution system with personality growth", "* Implements ERC-8004 standard for verifiable agents", "* Enables decentralized AI economies">>],
  \* line 185
  [op |-> "add_content_slide", title |-> "* 2. FEASIBILITY",
      content_items |-> <<"** Built entirely on Hedera infrastructure", "* Production-ready architecture with clear roadmap", "* Realistic business model with multiple revenue streams", "* Scalable from testnet to mainnet", "** Proven tech stack: Next.js, TypeScript, Hedera SDK", "* Low operational costs due to Hedera's efficiency">>],
  \* line 195
  [op |-> "add_content_slide", title |-> "* 3. EXECUTION",
      content_items |-> <<"* Working MVP with full feature set", "* Create souls with AI personality generation", "* Chat with souls - they learn and evolve", "* Professional UI/UX with cosmic theme", "* Clear long-term roadmap (marketplace, breeding, DAO)", "* Excellent accessibility and user experience">>],
  \* line 205
  [op |-> "add_two_column_slide", title |-> "* 4. INTEGRATION - Deep Hedera Usage",
      left_items |-> <<"Hedera Services Used:", "* Hedera Token Service (HTS)", "  - NFT minting & management", "  - Token ID: 0.0.7242548", "* Smart Contract Service", "  - ERC-8004 compliance", "  - Contract ID: 0.0.7261125", "* Consensus Service", "  - Sub-second finality", "  - Fair ordering">>,
      right_items |-> <<"Integration Metrics:", "* Mirror Node API", "  - Real-time data queries", "  - Transaction history", "* Hedera SDK", "  - Account management", "  - Receipt verification", "* HashScan Explorer", "  - Public verification", "  - Transaction transparency">>],
  \* line 230
  [op |-> "add_content_slide", title |-> "* 5. SUCCESS POTENTIAL",
      content_items |-> <<"* High potential to increase Hedera adoption", "* Brings AI community to Hedera ecosystem", "* Scalable to mainnet with clear migration path", "* Clear value proposition for users & developers", "* Enables new use cases: agent-to-agent transactions", "* Taps into $200B+ AI market + $10B+ NFT market">>],
  \* line 240
  [op |-> "add_content_slide", title |-> "** 6. VALIDATION",
      content_items |-> <<"* Market research: NFT + AI intersection is untapped", "* User feedback incorporated during development", "* Strong product-market fit identified", "* Growing AI market with increasing adoption", "* Clear target audience: AI enthusiasts, NFT collectors, Web3 devs", "* Traction potential with emerging AI agent economy">>],
  \* line 250
  [op |-> "add_two_column_slide", title |-> "* 7. PITCH - Clear Problem/Solution",
      left_items |-> <<"Problem:", "* AI lacks decentralized infrastructure", "* NFTs lack AI integration", "* No verifiable AI agent marketplace", "", "Solution:", "* DreamMarket: AI as tradeable NFTs", "* Hedera-powered for speed & cost", "* ERC-8004 verified agents">>,
      right_items |-> <<"Opportunity Metrics:", "* NFT Market: $10B+ (2024)", "* AI Market: $200B+ (2024)", "* Intersection: Untapped", "", "Revenue Streams:", "* Minting fees", "* Marketplace commission (2.5%)", "* Premium features", "* Enterprise licensing">>],
  \* line 274
  [op |-> "add_content_slide", title |-> "** Technical Architecture",
      content_items |-> <<"Frontend: Next.js 14, TypeScript, Tailwind CSS, Framer Motion", "Backend: Next.js API Routes, Hedera SDK, PostgreSQL (Supabase)", "Blockchain: Hedera Testnet, HTS, Smart Contracts, Mirror Node", "AI: Groq API for personality generation", "Wallet: HashConnect for non-custodial transactions", "Deployment: Vercel for frontend, production-ready">>],
  \* line 284
  [op |-> "add_content_slide", title |-> "* Key Features",
      content_items |-> <<"* Soul Creation: Design unique AI personalities with rarity tiers", "* Chat System: Interact with souls - they learn and evolve", "** Marketplace: Browse, trade, and collect souls", "* Leaderboards: Track top souls and creators", "* On-Chain Verification: All transactions on HashScan", "* Evolution System: Souls grow through interactions">>],
  \* line 294
  [op |-> "add_two_column_slide", title |-> "* Roadmap",
      left_items |-> <<"Phase 1: MVP (Current)", "* Soul creation", "* HTS integration", "* NFT minting", "* Beautiful UI/UX", "", "Phase 2: Marketplace (Q1 2026)", "* Browse & discover", "* Buy/sell functionality", "* Wallet integration">>,
      right_items |-> <<"Phase 3: AI Integration (Q2 2026)", "* AI chat system", "* Personality evolution", "* Skill development", "* Agent-to-agent communication", "", "Phase 4: Advanced (Q3 2026)", "* Soul breeding/fusion", "* Governance token", "* DAO for marketplace", "* Mobile app & mainnet">>],
  \* line 320
  [op |-> "add_content_slide", title |-> "* Business Model",
      content_items |-> <<"Revenue Stream 1: Minting Fees - Small fee per soul creation", "Revenue Stream 2: Marketplace Commission - 2.5% on secondary sales", "Revenue Stream 3: Premium Features - Advanced AI interactions", "Revenue Stream 4: Enterprise Licensing - Custom collections & API access", "Target Market: AI enthusiasts, NFT collectors, crypto gamers, Web3 devs", "Path to Profitability: Sustainable through multiple revenue streams">>],
  \* line 330
  [op |-> "add_content_slide", title |-> "* Competitive Advantage",
      content_items |-> <<"* Built on Hedera: Sub-second finality, low costs", "* ERC-8004 Compliance: Verifiable on-chain agents", "* Beautiful UX: Professional design with cosmic theme", "* Evolution System: Unique personality growth mechanics", "* Ecosystem Integration: Deep Hedera integration", "* First-Mover: First AI agent marketplace on Hedera">>],
  \* line 340
  [op |-> "add_content_slide", title |-> "* Team & Resources",
      content_items |-> <<"* Full-stack development team with blockchain expertise", "* Production-ready codebase with comprehensive documentation", "* Proven tech stack: Next.js, TypeScript, Hedera SDK", "* Clear roadmap with realistic timelines", "* Strong community support and mentorship", "* Ready for mainnet deployment and scaling">>],
  \* line 350
  [op |-> "add_title_slide", title |-> "* Join the Revolution",
      subtitle |-> "Where Digital Souls Come Alive on the Blockchain\n\nLet's build the future of AI on Hedera!"],
  \* line 354
  [op |-> "save"]
>>

RealGens == {"final", "pdf", "pptx"}
FlowGens == {"final", "pdf", "flow"}
CanvasGens == {"pptx", "canvas"}

\* ------------------------------------------------------------- small decks
\* Texts of the small decks: empty, one line, and (the sentences of
\* generate_final_pitch_deck.py lines 130 and 149) three lines or more.
ShortText == "a"
LongText ==
  "Create a revolutionary marketplace where AI personalities become tradeable digital assets on Hedera blockchain, enabling verifiable on-chain agents with dynamic evolution systems. DreamMarket is a revolutionary marketplace where AI personalities become tradeable digital assets (NFTs) on Hedera blockchain."

\* The statements a small flow deck is made of: every statement form of the
\* two create_pdf functions, with heights that fill a page to within two
\* lines (6.9 in), to within less than one line (7.1 in) or overfill it (8 in).
FlowAlphabet ==
  { [op |-> "Spacer", width |-> 1, height |-> (690 * inch) \div 100],
    [op |-> "Spacer", width |-> 1, height |-> (710 * inch) \div 100],
    [op |-> "Spacer", width |-> 1, height |-> (800 * inch) \div 100],
    [op |-> "Paragraph", text |-> ShortText, style |-> "bullet_style"],
    [op |-> "Paragraph", text |-> LongText, style |-> "bullet_style"],
    [op |-> "ParagraphNow", prefix |-> "Submitted: ", format |-> "%B %d, %Y", style |-> "body_style"],
    [op |-> "PageBreak"],
    [op |-> "ForIf", items |-> <<"", ShortText>>, height |-> (10 * inch) \div 100, style |-> "bullet_style"],
    [op |-> "For", items |-> <<ShortText, "">>, style |-> "bullet_style"],
    FinalScript[24] }

\* The statements that come before the last one of a small flow deck.
FlowFillers ==
  { [op |-> "Spacer", width |-> 1, height |-> (690 * inch) \div 100],
    [op |-> "Spacer", width |-> 1, height |-> (710 * inch) \div 100],
    [op |-> "Paragraph", text |-> LongText, style |-> "bullet_style"],
    [op |-> "PageBreak"] }

FlowDecks ==
  {pre \o <<s, [op |-> "build"]>> :
     pre \in SeqsUpTo(FlowFillers, MaxLen - 1), s \in FlowAlphabet}

\* Statements the two create_pdf functions do not make but their code
\* allows: a table of two column widths with a row of one cell or of three,
\* and blocks that name a style that no statement defines.
RaggedTable(row) ==
  [op |-> "Table", data |-> << << <<"A">>, <<"B">> >>, row >>,
   colWidths |-> FinalScript[24].colWidths, cmds |-> FinalScript[24].cmds]
FaultyStatements ==
  { RaggedTable(<< <<"c">> >>),
    RaggedTable(<< <<"c">>, <<"d">>, <<"e">> >>),
    [op |-> "Paragraph", text |-> ShortText, style |-> "caption_style"],
    [op |-> "For", items |-> <<ShortText>>, style |-> "caption_style"],
    [op |-> "ForIf", items |-> <<"", ShortText>>, height |-> (10 * inch) \div 100,
     style |-> "caption_style"] }
FaultyDecks ==
  {pre \o <<f>> \o post \o <<[op |-> "build"]>> :
     f \in FaultyStatements,
     pre \in {<<>>, <<[op |-> "Paragraph", text |-> ShortText, style |-> "bullet_style"]>>},
     post \in {<<>>, <<[op |-> "Paragraph", text |-> ShortText, style |-> "bullet_style"]>>}}

\* The small flow decks on which two invocations are interleaved.
TwoRunDecks == {d \in FlowDecks : Len(d) <= 3} \cup FaultyDecks

ItemLists == SeqsUpTo({"", ShortText}, MaxItems)

\* A small canvas deck is one call of a slide function, then the save.
CanvasAlphabet ==
  { [op |-> "add_title_slide", title |-> "T", subtitle |-> "S"] }
  \cup { [op |-> "add_content_slide", title |-> "T", content_items |-> its] : its \in ItemLists }
  \cup { [op |-> "add_two_column_slide", title |-> "T", left_items |-> l, right_items |-> r] :
           l \in ItemLists, r \in ItemLists }

CanvasDecks == {<<c, [op |-> "save"]>> : c \in CanvasAlphabet}

\* ------------------------------------------------------------------- clock
\* datetime.now(): the wall clock, as the number of days since the first day
\* of the window of MaxDay days a behaviour spans.
Epoch == [year |-> 2025, month |-> 11, day |-> 30]
MonthName == [m \in {11, 12} |-> IF m = 11 THEN "November" ELSE "December"]
MonthDays == [m \in {11, 12} |-> IF m = 11 THEN 30 ELSE 31]

Date(k) ==
  IF Epoch.day + k <= MonthDays[Epoch.month]
  THEN [year |-> Epoch.year, month |-> Epoch.month, day |-> Epoch.day + k]
  ELSE [year |-> Epoch.year, month |-> Epoch.month + 1,
        day |-> Epoch.day + k - MonthDays[Epoch.month]]

Digit == <<"0", "1", "2", "3", "4", "5", "6", "7", "8", "9">>
RECURSIVE Decimal(_)
Decimal(n) == IF n < 10 THEN Digit[n + 1] ELSE Decimal(n \div 10) \o Digit[(n % 10) + 1]

\* date.strftime('%B %d, %Y'): full month name, zero-padded day, year.
strftime(d, format) ==
  IF format = "%B %d, %Y"
  THEN MonthName[d.month] \o " " \o (IF d.day < 10 THEN "0" ELSE "") \o Decimal(d.day)
       \o ", " \o Decimal(d.year)
  ELSE format

\* Widths of an average glyph, in tenths of the font size, that text may be
\* set with (the font metrics are not part of the repository).
CharWidths == {5, 10}

\* --------------------------------------------------------------- the state
VARIABLES
  gen,        \* the generator this behaviour runs
  deck,       \* the statements of a small deck (<<>> for the three generators)
  cw,         \* the glyph width text is set with
  clock,      \* datetime.now(), in days since Epoch
  run,        \* the number of the current run, 1..MaxRuns
  pc,         \* the statement of the script the run is at
  loop,       \* the for loop the run is inside ("" when in none)
  i,          \* the number of items that loop has processed
  elements,   \* create_pdf: the list of flowables
  doc,        \* create_pdf: the SimpleDocTemplate and its build
  prs,        \* create_pitch_deck: the slides of the Presentation
  files,      \* the files written, by name
  returned,   \* what the run returned or raised ("" while it runs)
  styles,     \* create_pdf: the styles the run has defined, by variable name
  attempts,   \* the writes of the output file the run has attempted
  stdout,     \* what the process has printed
  module,     \* the module-level values: the colour constants
  other       \* the locals of a second invocation in the same process

vars == <<gen, deck, cw, clock, run, pc, loop, i, elements, doc, prs, files, returned,
          styles, attempts, stdout, module, other>>

Script ==
  CASE gen = "final" -> FinalScript
    [] gen = "pdf" -> PdfScript
    [] gen = "pptx" -> PptxScript
    [] OTHER -> deck

\* The styles the statements of create_pdf define before its first block.
Styles == IF gen = "pdf" THEN PdfStyles ELSE FinalStyles

\* No style is defined yet.
NoStyles == [name \in {} |-> {}]

stmt == Script[pc]
Running == returned = "" /\ pc <= Len(Script) /\ (gen \in FlowGens => styles # NoStyles)
At(op) == Running /\ loop = "" /\ stmt.op = op

\* SimpleDocTemplate(filename, pagesize=landscape(letter), rightMargin=0.5*inch,
\* leftMargin=0.5*inch, topMargin=0.5*inch, bottomMargin=0.5*inch): the frame
\* of a page is the page less its margins and the frame's own padding of 6 pt.
PdfName == "DreamMarket_Pitch_Deck.pdf"
PptxName == "DreamMarket_Pitch_Deck.pptx"
NoFile == [written |-> FALSE]
pagesize == [width |-> (1100 * inch) \div 100, height |-> (850 * inch) \div 100]
margin == (50 * inch) \div 100
FramePadding == 6 * pt
FrameW == pagesize.width - 2 * margin - 2 * FramePadding
FrameH == pagesize.height - 2 * margin - 2 * FramePadding

NewDoc ==
  [state |-> "idle", flowables |-> <<>>, pages |-> <<>>, page |-> <<>>, open |-> FALSE,
   y |-> 0, atTop |-> TRUE, prevASpace |-> 0, breaks |-> 0, overflows |-> 0]

\* The locals of an invocation that has not taken a step.
Fresh ==
  [pc |-> 1, loop |-> "", i |-> 0, elements |-> <<>>, doc |-> NewDoc, prs |-> <<>>,
   styles |-> NoStyles, attempts |-> 0, returned |-> ""]

\* The locals of the invocation that is running.
Locals ==
  [pc |-> pc, loop |-> loop, i |-> i, elements |-> elements, doc |-> doc, prs |-> prs,
   styles |-> styles, attempts |-> attempts, returned |-> returned]

\* The state at the first statement of a run: fresh elements, doc and prs.
Init ==
  /\ gen \in RealGens \cup {"flow", "canvas"}
  /\ deck \in CASE gen = "flow" -> FlowDecks \cup FaultyDecks
                [] gen = "canvas" -> CanvasDecks
                [] OTHER -> {<<>>}
  /\ cw \in CharWidths
  /\ clock = 0
  /\ run = 1
  /\ pc = 1
  /\ loop = ""
  /\ i = 0
  /\ elements = <<>>
  /\ doc = NewDoc
  /\ prs = <<>>
  /\ files = [n \in {PdfName, PptxName} |-> NoFile]
  /\ returned = ""
  /\ styles = NoStyles
  /\ attempts = 0
  /\ stdout = <<>>
  /\ module = Colors
  /\ other = Fresh

\* ------------------------------------------------- composing the flowables
Spacer(width, height) == [kind |-> "Spacer", width |-> width, height |-> height]
Paragraph(text, style) == [kind |-> "Paragraph", text |-> text, style |-> style]
PageBreak == [kind |-> "PageBreak"]
\* Table(data, colWidths=...): the table has as many columns as its longest
\* row; a shorter row (a list) is filled up with empty cells, and the list
\* of column widths is filled up with its last width or cut to that number.
ncols(data) == CHOOSE n \in {Len(data[r]) : r \in 1..Len(data)} :
                 \A r \in 1..Len(data) : Len(data[r]) <= n
PadRow(row, n) == row \o [k \in 1..(n - Len(row)) |-> <<"">>]
PadWidths(ws, n) == [k \in 1..n |-> IF k <= Len(ws) THEN ws[k] ELSE ws[Len(ws)]]
Table(data, colWidths, cmds) ==
  [kind |-> "Table",
   data |-> [r \in 1..Len(data) |-> PadRow(data[r], ncols(data))],
   colWidths |-> PadWidths(colWidths, ncols(data)),
   cmds |-> cmds]

\* (mutant of append) the flowable is put at the head of the list
prepend(x) == elements' = <<x>> \o elements

\* elements.append(x)
append(x) == elements' = Append(elements, x)

Step == /\ pc' = pc + 1
        /\ UNCHANGED <<styles, attempts, stdout, module, other, gen, deck, cw, clock, run, loop, i, doc, prs, files, returned>>

\* elements.append(Spacer(1, h*inch))
AppendSpacer ==
  /\ At("Spacer")
  /\ append(Spacer(stmt.width, stmt.height))
  /\ Step

\* The statement the run is at names a style variable that was never
\* assigned (in a loop the name is evaluated when an item needs it).
UndefinedStyle ==
  /\ Running
  /\ \/ loop = "" /\ stmt.op \in {"Paragraph", "ParagraphNow"}
     \/ loop = "For" /\ i < Len(stmt.items)
     \/ loop = "ForIf" /\ i < Len(stmt.items) /\ stmt.items[i + 1] # ""
  /\ stmt.style \notin DOMAIN styles

\* (mutant of AppendParagraph) a style name that was never assigned is
\* replaced by body_style
AppendParagraphDefaulting ==
  /\ At("Paragraph")
  /\ append(Paragraph(stmt.text,
                      IF stmt.style \in DOMAIN styles THEN stmt.style ELSE "body_style"))
  /\ Step

\* (mutant of AppendParagraph) every paragraph carries the date of the run
AppendParagraphDated ==
  /\ At("Paragraph") /\ ~UndefinedStyle
  /\ append(Paragraph(stmt.text \o strftime(Date(clock), "%B %d, %Y"), stmt.style))
  /\ Step

\* elements.append(Paragraph(text, style))
AppendParagraph ==
  /\ At("Paragraph") /\ ~UndefinedStyle
  /\ append(Paragraph(stmt.text, stmt.style))
  /\ Step

\* elements.append(Paragraph(f"Submitted: {datetime.now().strftime('%B %d, %Y')}", body_style))
AppendParagraphNow ==
  /\ At("ParagraphNow") /\ ~UndefinedStyle
  /\ append(Paragraph(stmt.prefix \o strftime(Date(clock), stmt.format), stmt.style))
  /\ Step

\* (mutant of AppendPageBreak) the PageBreak is appended twice
AppendPageBreakTwice ==
  /\ At("PageBreak")
  /\ elements' = elements \o <<PageBreak, PageBreak>>
  /\ Step

\* elements.append(PageBreak())
AppendPageBreak ==
  /\ At("PageBreak")
  /\ append(PageBreak)
  /\ Step

\* elements.append(table), after Table(data, colWidths=...) and setStyle(TableStyle([...]))
\* (mutant of AppendTable) the header row is given one cell more than there
\* are column widths
AppendTableLongHeader ==
  /\ At("Table")
  /\ append(Table(<<Append(stmt.data[1], <<"">>)>> \o Tail(stmt.data),
                  stmt.colWidths, stmt.cmds))
  /\ Step

AppendTable ==
  /\ At("Table")
  /\ append(Table(stmt.data, stmt.colWidths, stmt.cmds))
  /\ Step

\* Table(data, colWidths=...) of a reportlab that takes the first row's
\* length for the number of columns: a longer row raises ValueError
\* ("expected 2 not 3 columns in row 1!"), which leaves create_pdf
TableRaises ==
  /\ At("Table")
  /\ \E r \in 1..Len(stmt.data) : Len(stmt.data[r]) > Len(stmt.data[1])
  /\ returned' = "ValueError"
  /\ UNCHANGED <<styles, attempts, stdout, module, other, gen, deck, cw, clock, run, pc,
                 loop, i, elements, doc, prs, files>>

\* the evaluation of Paragraph(text, some_style) raises NameError, which
\* leaves create_pdf
RaiseNameError ==
  /\ UndefinedStyle
  /\ returned' = "NameError"
  /\ UNCHANGED <<styles, attempts, stdout, module, other, gen, deck, cw, clock, run, pc,
                 loop, i, elements, doc, prs, files>>

\* for item in items:  -- the loop is entered
ForEnter ==
  /\ Running /\ loop = "" /\ stmt.op \in {"For", "ForIf"}
  /\ loop' = stmt.op
  /\ i' = 0
  /\ UNCHANGED <<styles, attempts, stdout, module, other, gen, deck, cw, clock, run, pc, elements, doc, prs, files, returned>>

\* (mutant of ForBody) the loop enlarges the font of its style at each item
ForBodyRestyling ==
  /\ Running /\ loop = "For" /\ i < Len(stmt.items) /\ ~UndefinedStyle
  /\ append(Paragraph(stmt.items[i + 1], stmt.style))
  /\ i' = i + 1
  /\ styles' = [styles EXCEPT ![stmt.style].fontSize = @ + pt,
                              ![stmt.style].leading = @ + pt]
  /\ UNCHANGED <<attempts, stdout, module, other, gen, deck, cw, clock, run, pc, loop, doc, prs, files, returned>>

\* for item in items: elements.append(Paragraph(item, bullet_style))
ForBody ==
  /\ Running /\ loop = "For" /\ i < Len(stmt.items) /\ ~UndefinedStyle
  /\ append(Paragraph(stmt.items[i + 1], stmt.style))
  /\ i' = i + 1
  /\ UNCHANGED <<styles, attempts, stdout, module, other, gen, deck, cw, clock, run, pc, loop, doc, prs, files, returned>>

\* (mutant of ForIfBody) an empty item is made a paragraph like any other
ForIfBodyAlwaysParagraph ==
  /\ Running /\ loop = "ForIf" /\ i < Len(stmt.items)
  /\ stmt.style \in DOMAIN styles
  /\ append(Paragraph(stmt.items[i + 1], stmt.style))
  /\ i' = i + 1
  /\ UNCHANGED <<styles, attempts, stdout, module, other, gen, deck, cw, clock, run, pc, loop, doc, prs, files, returned>>

\* for item in items:
\*     if item == "": elements.append(Spacer(1, h*inch))
\*     else:          elements.append(Paragraph(item, bullet_style))
ForIfBody ==
  /\ Running /\ loop = "ForIf" /\ i < Len(stmt.items) /\ ~UndefinedStyle
  /\ IF stmt.items[i + 1] = ""
     THEN append(Spacer(1, stmt.height))
     ELSE append(Paragraph(stmt.items[i + 1], stmt.style))
  /\ i' = i + 1
  /\ UNCHANGED <<styles, attempts, stdout, module, other, gen, deck, cw, clock, run, pc, loop, doc, prs, files, returned>>

\* the items are exhausted: the loop is left
ForExitBreaking ==
  /\ Running /\ loop \in {"For", "ForIf"} /\ i = Len(stmt.items)
  /\ loop' = ""
  /\ i' = 0
  /\ pc' = pc + 1
  /\ elements' = Append(elements, PageBreak)
  /\ UNCHANGED <<styles, attempts, stdout, module, other, gen, deck, cw, clock, run, doc, prs, files, returned>>

ForExit ==
  /\ Running /\ loop \in {"For", "ForIf"} /\ i = Len(stmt.items)
  /\ loop' = ""
  /\ i' = 0
  /\ pc' = pc + 1
  /\ UNCHANGED <<styles, attempts, stdout, module, other, gen, deck, cw, clock, run, elements, doc, prs, files, returned>>

\* A colour constant as the module holds it now.
Colour(c) == module[CHOOSE k \in DOMAIN Colors : Colors[k] = c]

\* styles = getSampleStyleSheet(); title_style = ParagraphStyle(...); ...;
\* bullet_style = ParagraphStyle(...): the styles are defined, each from the
\* sample style sheet and the colour constants, before the first block
DefineStyles ==
  /\ returned = "" /\ pc = 1 /\ loop = "" /\ elements = <<>>
  /\ gen \in FlowGens
  /\ styles = NoStyles
  /\ styles' = [n \in DOMAIN Styles |-> [Styles[n] EXCEPT !.textColor = Colour(@)]]
  /\ UNCHANGED <<attempts, stdout, module, other, gen, deck, cw, clock, run, pc, loop, i,
                 elements, doc, prs, files, returned>>

\* ------------------------------------------------------ doc.build(elements)
\* The build lays the flowables out in page frames as platypus does it
\* (BaseDocTemplate.build, handle_flowable, Frame.add, Paragraph.split and
\* Table.split with the defaults this SimpleDocTemplate is created with:
\* allowSplitting on, allowOrphans off, allowWidows on, repeatRows 0).

\* The lines a paragraph's text wraps to in the frame.
Lines(text, style) ==
  CeilDiv(Len(text) * style.fontSize * cw, 10 * (FrameW - style.leftIndent))

\* The cell defaults of a Table that no style command of the scripts changes.
TableDefaults == [leading |-> 12 * pt, topPadding |-> 3 * pt, bottomPadding |-> 3 * pt]

\* A style command ("NAME", (c0, r0), (c1, r1), value...) covers row r of n
\* rows (rows count from 0; a negative index counts from the end).
Norm(k, n) == IF k < 0 THEN n + k ELSE k
\* (mutant of Covers) a command reaches every row, whatever its range
CoversAnyRow(cmd, r, n) == 0 <= r /\ r < n
Covers(cmd, r, n) == Norm(cmd[2][2], n) <= r /\ r <= Norm(cmd[3][2], n)

\* The value the last command `name` covering row r sets, or the default.
RowSetting(t, name, r, default) ==
  LET ks == {k \in 1..Len(t.cmds) : t.cmds[k][1] = name /\ Covers(t.cmds[k], r, Len(t.data))}
  IN IF ks = {} THEN default ELSE t.cmds[CHOOSE k \in ks : \A j \in ks : j <= k][4][1]

\* (mutant of RowLines) the first cell of the row gives the row its height
RowLinesOfFirstCell(t, r) == Len(t.data[r][1])

\* The lines of the tallest cell of row r (rows count from 1 here).
RowLines(t, r) ==
  LET row == t.data[r]
  IN CHOOSE m \in {Len(row[c]) : c \in 1..Len(row)} : \A c \in 1..Len(row) : Len(row[c]) <= m

RowHeight(t, r) ==
  RowLines(t, r) * TableDefaults.leading + TableDefaults.topPadding
  + (IF RowSetting(t, "BOTTOMPADDING", r - 1, -1) = -1
     THEN TableDefaults.bottomPadding
     ELSE RowSetting(t, "BOTTOMPADDING", r - 1, -1) * pt)

\* The lines of a paragraph or the rows of a table: the units it can be split at.
Units(f) ==
  CASE f.kind = "Paragraph" -> Lines(f.text, styles[f.style])
    [] f.kind = "Table" -> Len(f.data)
    [] OTHER -> 1

\* A flowable on the build's list: element `src` of elements, or the part
\* from..to of it that a split left.
Entry(src) ==
  [src |-> src, f |-> elements[src], from |-> 1, to |-> Units(elements[src]),
   postponed |-> FALSE]

RECURSIVE RowsHeight(_, _, _)
RowsHeight(t, from, to) ==
  IF from > to THEN 0 ELSE RowHeight(t, from) + RowsHeight(t, from + 1, to)

\* flowable.wrap(): the height of an entry.
Height(e) ==
  CASE e.f.kind = "Paragraph" -> (e.to - e.from + 1) * styles[e.f.style].leading
    [] e.f.kind = "Table" -> RowsHeight(e.f, e.from, e.to)
    [] e.f.kind = "Spacer" -> e.f.height
    [] OTHER -> 0

getSpaceBefore(e) == IF e.f.kind = "Paragraph" THEN styles[e.f.style].spaceBefore ELSE 0
getSpaceAfter(e) == IF e.f.kind = "Paragraph" THEN styles[e.f.style].spaceAfter ELSE 0

\* Frame._add: the space kept above the flowable (none at the top of the
\* frame; otherwise what its spaceBefore exceeds the previous spaceAfter by).
SpaceAbove(d, e) == IF d.atTop THEN 0 ELSE Max(getSpaceBefore(e) - d.prevASpace, 0)

\* (mutant of Fits) whatever the space left, the flowable is taken to fit
FitsAlways(d, e) == TRUE

Fits(d, e) == Height(e) + SpaceAbove(d, e) <= d.y

\* What is placed on a page: the entry without its build bookkeeping.
Placed(e) == [src |-> e.src, f |-> e.f, from |-> e.from, to |-> e.to]

\* Frame.add succeeded: the flowable is drawn and the cursor moves down.
Place(d, e) ==
  [d EXCEPT !.page = Append(@, Placed(e)),
            !.y = @ - Height(e) - SpaceAbove(d, e) - getSpaceAfter(e),
            !.prevASpace = getSpaceAfter(e),
            !.atTop = @ /\ Height(e) + SpaceAbove(d, e) + getSpaceAfter(e) = 0]

\* Frame.split: the number of units of e that stay in this frame, 0 when e
\* is not split.  Paragraph.split keeps at least two lines here (no orphans)
\* and Table.split splits between rows; nothing else splits.
RECURSIVE RowsThatFit(_, _, _, _)
RowsThatFit(t, from, to, avail) ==
  IF from > to \/ RowHeight(t, from) > avail THEN 0
  ELSE 1 + RowsThatFit(t, from + 1, to, avail - RowHeight(t, from))

\* (mutant of SplitAt) a paragraph is split after any line that fits
SplitAfterAnyLine(d, e) ==
  LET avail == d.y - SpaceAbove(d, e)
      n == e.to - e.from + 1
      k == CASE avail <= 0 -> 0
             [] e.f.kind = "Paragraph" -> avail \div styles[e.f.style].leading
             [] e.f.kind = "Table" -> RowsThatFit(e.f, e.from, e.to, avail)
             [] OTHER -> 0
  IN IF e.f.kind \in {"Paragraph", "Table"} /\ 0 < k /\ k < n THEN k ELSE 0

SplitAt(d, e) ==
  LET avail == d.y - SpaceAbove(d, e)
      n == e.to - e.from + 1
      k == CASE avail <= 0 -> 0
             [] e.f.kind = "Paragraph" -> avail \div styles[e.f.style].leading
             [] e.f.kind = "Table" -> RowsThatFit(e.f, e.from, e.to, avail)
             [] OTHER -> 0
  IN CASE e.f.kind = "Paragraph" -> IF k <= 1 \/ n <= k THEN 0 ELSE k
       [] e.f.kind = "Table" -> IF k = 0 \/ n <= k THEN 0 ELSE k
       [] OTHER -> 0

\* handle_pageBegin, when a page is pending
BeginPage(d) ==
  IF d.open THEN d
  ELSE [d EXCEPT !.open = TRUE, !.page = <<>>, !.y = FrameH, !.atTop = TRUE,
                 !.prevASpace = 0]

\* (mutant of EndPage) the open page is dropped instead of going to the canvas
EndPageLosing(d) == [d EXCEPT !.page = <<>>, !.open = FALSE]

\* handle_pageEnd: the open page goes to the canvas, the next one is pending
EndPage(d) == [d EXCEPT !.pages = Append(@, d.page), !.page = <<>>, !.open = FALSE]

\* (mutant of handle_pageBreak) the PageBreak is dropped and the page goes on
skip_pageBreak(d) == [d EXCEPT !.flowables = Tail(d.flowables), !.breaks = @ + 1]

\* handle_pageBreak, for a PageBreak flowable
handle_pageBreak(d) ==
  [EndPage(d) EXCEPT !.flowables = Tail(d.flowables), !.breaks = @ + 1]

\* (mutant of handle_flowable) the flowable is placed first and the cursor
\* looked at afterwards: the page ends when the cursor has passed the bottom
\* of the frame, the flowable the last on it
handle_flowable_then_check(d0) ==
  LET d == BeginPage(d0)
      e == Head(d.flowables)
      placed == [Place(d, e) EXCEPT !.flowables = Tail(d.flowables)]
  IN IF e.f.kind = "PageBreak" THEN handle_pageBreak(d)
     ELSE IF placed.y < 0 THEN [EndPage(placed) EXCEPT !.overflows = @ + 1]
     ELSE placed

\* handle_flowable: the first flowable of the list is taken.  A PageBreak
\* ends the page.  A flowable that fits is placed.  One that does not fit is
\* split if it can be (its first part is placed, the rest goes back on the
\* list); otherwise it goes back whole and the page ends, and if it had
\* already been put back once the build fails with a LayoutError.
handle_flowable(d0) ==
  LET d == BeginPage(d0)
      e == Head(d.flowables)
      k == SplitAt(d, e)
  IN CASE e.f.kind = "PageBreak" -> handle_pageBreak(d)
       [] e.f.kind # "PageBreak" /\ Fits(d, e) ->
            [Place(d, e) EXCEPT !.flowables = Tail(d.flowables)]
       [] e.f.kind # "PageBreak" /\ ~Fits(d, e) /\ k > 0 ->
            [Place(d, [e EXCEPT !.to = e.from + k - 1]) EXCEPT
               !.flowables = <<[e EXCEPT !.from = e.from + k, !.postponed = FALSE]>>
                             \o Tail(d.flowables)]
       [] e.f.kind # "PageBreak" /\ ~Fits(d, e) /\ k = 0 /\ e.postponed ->
            [d EXCEPT !.state = "LayoutError"]
       [] OTHER ->
            [EndPage(d) EXCEPT
               !.flowables = <<[e EXCEPT !.postponed = TRUE]>> \o Tail(d.flowables),
               !.overflows = @ + 1]

\* (mutant of endBuild) the page still open is not ended
endBuildNoFlush(d) == [d EXCEPT !.state = "built"]

\* _endBuild: a page still open is ended; the document is complete
endBuild(d) == [(IF d.open THEN EndPage(d) ELSE d) EXCEPT !.state = "built"]

\* doc.build(elements) is called: the build takes the list of flowables
Build ==
  /\ At("build")
  /\ doc.state = "idle"
  /\ doc' = [NewDoc EXCEPT !.state = "building",
                           !.flowables = [k \in 1..Len(elements) |-> Entry(k)]]
  /\ UNCHANGED <<styles, attempts, stdout, module, other, gen, deck, cw, clock, run, pc, loop, i, elements, prs, files, returned>>

\* The content of the PDF file: its pages, each the flowables placed on it.
PdfFile(d) == [written |-> TRUE, by |-> gen, pages |-> d.pages]

\* (mutant of HandleFlowable) what is laid out so far is written at each step
HandleFlowableStreaming ==
  /\ At("build")
  /\ doc.state = "building"
  /\ doc.flowables # <<>>
  /\ doc' = handle_flowable(doc)
  /\ files' = [files EXCEPT ![PdfName] = PdfFile(doc')]
  /\ returned' = IF doc'.state = "LayoutError" THEN "LayoutError" ELSE returned
  /\ UNCHANGED <<styles, attempts, stdout, module, other, gen, deck, cw, clock, run, pc,
                 loop, i, elements, prs>>

\* the build's loop: while len(flowables): handle_flowable(flowables);
\* a LayoutError leaves create_pdf as an exception
HandleFlowable ==
  /\ At("build")
  /\ doc.state = "building"
  /\ doc.flowables # <<>>
  /\ doc' = handle_flowable(doc)
  /\ returned' = IF doc'.state = "LayoutError" THEN "LayoutError" ELSE returned
  /\ UNCHANGED <<styles, attempts, stdout, module, other, gen, deck, cw, clock, run, pc, loop, i, elements, prs, files>>

\* the list is exhausted: the last page is ended, the file is written, and
\* create_pdf prints its message and returns the file name
EndBuild ==
  /\ At("build")
  /\ doc.state = "building"
  /\ doc.flowables = <<>>
  /\ doc' = endBuild(doc)
  /\ attempts' = attempts + 1
  /\ files' = [files EXCEPT ![PdfName] = PdfFile(doc')]
  /\ stdout' = Append(stdout, PdfName)
  /\ pc' = pc + 1
  /\ returned' = PdfName
  /\ UNCHANGED <<styles, module, other, gen, deck, cw, clock, run, loop, i, elements, prs>>

\* What a write that fails leaves at the destination: the file as it was
\* (it could not be opened) or no complete file (it was opened, and so
\* truncated, and the write failed).
FailedWrite(name) == {files, [files EXCEPT ![name] = NoFile]}


\* (mutant of EndBuildFails) the write that fails is caught and made again,
\* and the second attempt succeeds
EndBuildRetries ==
  /\ At("build")
  /\ doc.state = "building"
  /\ doc.flowables = <<>>
  /\ doc' = endBuild(doc)
  /\ attempts' = attempts + 2
  /\ files' = [files EXCEPT ![PdfName] = PdfFile(doc')]
  /\ stdout' = Append(stdout, PdfName)
  /\ pc' = pc + 1
  /\ returned' = PdfName
  /\ UNCHANGED <<styles, module, other, gen, deck, cw, clock, run, loop, i, elements, prs>>

\* the list is exhausted and the last page is ended, but the file cannot be
\* written: the OSError leaves create_pdf, nothing is printed or returned
EndBuildFails ==
  /\ At("build")
  /\ doc.state = "building"
  /\ doc.flowables = <<>>
  /\ doc' = [endBuild(doc) EXCEPT !.state = "OSError"]
  /\ attempts' = attempts + 1
  /\ files' \in FailedWrite(PdfName)
  /\ returned' = "OSError"
  /\ UNCHANGED <<styles, stdout, module, other, gen, deck, cw, clock, run, pc, loop, i,
                 elements, prs>>

\* The write of doc.build as another process sees it.  The canvas opens the
\* file named filename for writing ("wb"), which empties the file, then
\* formats the document and writes the data from the start of the file.
\* The bytes of the file are modelled by its pages in their order, a
\* document of more pages having more bytes.  EndBuild is OpenFile followed
\* by WriteFile with no step of another process between them.
open_wb == [written |-> TRUE, by |-> gen, pages |-> <<>>]

\* (mutant of write) the file is opened for appending ("ab")
write_appending(f, data) ==
  [written |-> TRUE, by |-> gen, pages |-> f.pages \o data]

\* f.write(data) on a file opened "wb", whose position is the start of the
\* file, when the file holds f: the data replaces the head of f, and what f
\* holds beyond the length of the data stays
write(f, data) ==
  [written |-> TRUE, by |-> gen,
   pages |-> data \o SubSeq(f.pages, Len(data) + 1, Len(f.pages))]

\* the list is exhausted: the last page is ended and the file is opened
OpenFile ==
  /\ At("build")
  /\ doc.state = "building"
  /\ doc.flowables = <<>>
  /\ doc' = [endBuild(doc) EXCEPT !.state = "saving"]
  /\ files' = [files EXCEPT ![PdfName] = open_wb]
  /\ UNCHANGED <<styles, attempts, stdout, module, other, gen, deck, cw, clock, run, pc,
                 loop, i, elements, prs, returned>>

\* the data is written and the file closed; create_pdf prints its message
\* and returns the file name
WriteFile ==
  /\ At("build")
  /\ doc.state = "saving"
  /\ doc' = [doc EXCEPT !.state = "built"]
  /\ attempts' = attempts + 1
  /\ files' = [files EXCEPT ![PdfName] = write(files[PdfName], doc.pages)]
  /\ stdout' = Append(stdout, PdfName)
  /\ pc' = pc + 1
  /\ returned' = PdfName
  /\ UNCHANGED <<styles, module, other, gen, deck, cw, clock, run, loop, i, elements, prs>>

\* ------------------------------------------------------- the slide functions
\* A paragraph of a text frame; a new text frame holds one empty paragraph.
EmptyParagraph ==
  [text |-> "", size |-> 0, bold |-> FALSE, color |-> "", space_before |-> 0,
   space_after |-> 0]

\* slide.shapes.add_textbox(left, top, width, height), word_wrap set
add_textbox(left, top, width, height) ==
  [shape |-> "textbox", left |-> left, top |-> top, width |-> width, height |-> height,
   fill |-> "", paragraphs |-> <<EmptyParagraph>>]

\* slide.shapes.add_shape(1, left, top, width, height), filled with PRIMARY
add_shape(left, top, width, height) ==
  [shape |-> "rectangle", left |-> left, top |-> top, width |-> width, height |-> height,
   fill |-> module.PRIMARY, paragraphs |-> <<EmptyParagraph>>]

\* p.text = text; p.font.size = Pt(size); p.font.bold; p.font.color.rgb; spacing
SetText(p, text, size, bold, color, space) ==
  [p EXCEPT !.text = text, !.size = Pt(size), !.bold = bold, !.color = color,
            !.space_before = Pt(space), !.space_after = Pt(space)]

\* prs.slides.add_slide(prs.slide_layouts[6]) with the DARK background
NewSlide(shapes) == [background |-> module.DARK, shapes |-> shapes]

\* (mutant of TitleBar) the bar is made taller the longer the title is
TitleBarFittingTitle(title) ==
  [add_shape(Inches(0), Inches(0), Inches(100), Inches(8 + Len(title))) EXCEPT
     !.paragraphs[1] = SetText(@, title, 36, TRUE, module.LIGHT, 0)]

\* The title bar of a content or two-column slide and its text.
TitleBar(title) ==
  [add_shape(Inches(0), Inches(0), Inches(100), Inches(8)) EXCEPT
     !.paragraphs[1] = SetText(@, title, 36, TRUE, module.LIGHT, 0)]

\* prs.slide_width = Inches(10); prs.slide_height = Inches(7.5)
slide_width == Inches(100)
slide_height == Inches(75)

\* (mutant of add_title_slide) the subtitle box begins 3 in from the top,
\* above the bottom of the title box
add_title_slide_closer(title, subtitle) ==
  NewSlide(<<
    [add_textbox(Inches(5), Inches(20), Inches(90), Inches(15)) EXCEPT
       !.paragraphs[1] = SetText(@, title, 54, TRUE, module.SECONDARY, 0)],
    [add_textbox(Inches(5), Inches(30), Inches(90), Inches(15)) EXCEPT
       !.paragraphs[1] = SetText(@, subtitle, 28, FALSE, module.LIGHT, 0)] >>)

\* add_title_slide(prs, title, subtitle)
add_title_slide(title, subtitle) ==
  NewSlide(<<
    [add_textbox(Inches(5), Inches(20), Inches(90), Inches(15)) EXCEPT
       !.paragraphs[1] = SetText(@, title, 54, TRUE, module.SECONDARY, 0)],
    [add_textbox(Inches(5), Inches(38), Inches(90), Inches(15)) EXCEPT
       !.paragraphs[1] = SetText(@, subtitle, 28, FALSE, module.LIGHT, 0)] >>)

AddTitleSlide ==
  /\ At("add_title_slide")
  /\ prs' = Append(prs, add_title_slide(stmt.title, stmt.subtitle))
  /\ pc' = pc + 1
  /\ UNCHANGED <<styles, attempts, stdout, module, other, gen, deck, cw, clock, run, loop, i, elements, doc, files, returned>>

\* (mutant of ItemPass) a paragraph is added at every pass, the first too
ItemPassAlwaysAdding(frame, k, item, size, space) ==
  LET grown == Append(frame, EmptyParagraph)
  IN [grown EXCEPT ![k + 1] = SetText(@, item, size, FALSE, module.LIGHT, space)]

\* One pass of an item loop over text frame `frame`:
\*     if i > 0: frame.add_paragraph()
\*     p = frame.paragraphs[i]; p.text = item; p.font.size = Pt(size); ...
ItemPass(frame, k, item, size, space) ==
  LET grown == IF k > 0 THEN Append(frame, EmptyParagraph) ELSE frame
  IN [grown EXCEPT ![k + 1] = SetText(@, item, size, FALSE, module.LIGHT, space)]

\* add_content_slide(prs, title, content_items): the slide, its title bar
\* and its content box, up to the item loop
ContentSlideBegin ==
  /\ At("add_content_slide")
  /\ prs' = Append(prs, NewSlide(<<TitleBar(stmt.title),
                                   add_textbox(Inches(5), Inches(12), Inches(90), Inches(60))>>))
  /\ loop' = "content_items"
  /\ i' = 0
  /\ UNCHANGED <<styles, attempts, stdout, module, other, gen, deck, cw, clock, run, pc, elements, doc, files, returned>>

\* (mutant of ContentItem) an item after the first is put on a slide of its own
ContentItemOnNewSlide ==
  /\ Running /\ loop = "content_items" /\ i < Len(stmt.content_items)
  /\ prs' = IF i = 0
            THEN [prs EXCEPT ![Len(prs)].shapes[2].paragraphs =
                               ItemPass(@, 0, stmt.content_items[1], 18, 8)]
            ELSE Append(prs, NewSlide(<<TitleBar(stmt.title),
                    [add_textbox(Inches(5), Inches(12), Inches(90), Inches(60)) EXCEPT
                       !.paragraphs = ItemPass(@, 0, stmt.content_items[i + 1], 18, 8)]>>))
  /\ i' = i + 1
  /\ UNCHANGED <<styles, attempts, stdout, module, other, gen, deck, cw, clock, run, pc, loop, elements, doc, files, returned>>

\* for i, item in enumerate(content_items): one pass
ContentItem ==
  /\ Running /\ loop = "content_items" /\ i < Len(stmt.content_items)
  /\ prs' = [prs EXCEPT ![Len(prs)].shapes[2].paragraphs =
                          ItemPass(@, i, stmt.content_items[i + 1], 18, 8)]
  /\ i' = i + 1
  /\ UNCHANGED <<styles, attempts, stdout, module, other, gen, deck, cw, clock, run, pc, loop, elements, doc, files, returned>>

\* return slide
ContentSlideReturn ==
  /\ Running /\ loop = "content_items" /\ i = Len(stmt.content_items)
  /\ loop' = ""
  /\ i' = 0
  /\ pc' = pc + 1
  /\ UNCHANGED <<styles, attempts, stdout, module, other, gen, deck, cw, clock, run, elements, doc, prs, files, returned>>

\* add_two_column_slide(prs, title, left_items, right_items): the slide, its
\* title bar and the left box, up to the loop over left_items
TwoColumnSlideBegin ==
  /\ At("add_two_column_slide")
  /\ prs' = Append(prs, NewSlide(<<TitleBar(stmt.title),
                                   add_textbox(Inches(3), Inches(12), Inches(45), Inches(60))>>))
  /\ loop' = "left_items"
  /\ i' = 0
  /\ UNCHANGED <<styles, attempts, stdout, module, other, gen, deck, cw, clock, run, pc, elements, doc, files, returned>>

\* for i, item in enumerate(left_items): one pass
LeftItem ==
  /\ Running /\ loop = "left_items" /\ i < Len(stmt.left_items)
  /\ prs' = [prs EXCEPT ![Len(prs)].shapes[2].paragraphs =
                          ItemPass(@, i, stmt.left_items[i + 1], 16, 6)]
  /\ i' = i + 1
  /\ UNCHANGED <<styles, attempts, stdout, module, other, gen, deck, cw, clock, run, pc, loop, elements, doc, files, returned>>

\* (mutant of RightColumnBegin) the right box is put lower the longer the
\* left list is, the two columns sharing one vertical cursor
RightColumnBeginBelowLeft ==
  /\ Running /\ loop = "left_items" /\ i = Len(stmt.left_items)
  /\ prs' = [prs EXCEPT ![Len(prs)].shapes =
                          Append(@, add_textbox(Inches(52), Inches(12 + 3 * Len(stmt.left_items)),
                                                Inches(45), Inches(60)))]
  /\ loop' = "right_items"
  /\ i' = 0
  /\ UNCHANGED <<styles, attempts, stdout, module, other, gen, deck, cw, clock, run, pc, elements, doc, files, returned>>

\* left_items are exhausted: the right box is added, up to the loop over right_items
RightColumnBegin ==
  /\ Running /\ loop = "left_items" /\ i = Len(stmt.left_items)
  /\ prs' = [prs EXCEPT ![Len(prs)].shapes =
                          Append(@, add_textbox(Inches(52), Inches(12), Inches(45), Inches(60)))]
  /\ loop' = "right_items"
  /\ i' = 0
  /\ UNCHANGED <<styles, attempts, stdout, module, other, gen, deck, cw, clock, run, pc, elements, doc, files, returned>>

\* (mutant of RightItem) the items of the right list are written into the
\* left box
RightItemIntoLeftBox ==
  /\ Running /\ loop = "right_items" /\ i < Len(stmt.right_items)
  /\ prs' = [prs EXCEPT ![Len(prs)].shapes[2].paragraphs =
                          ItemPass(@, i, stmt.right_items[i + 1], 16, 6)]
  /\ i' = i + 1
  /\ UNCHANGED <<styles, attempts, stdout, module, other, gen, deck, cw, clock, run, pc, loop, elements, doc, files, returned>>

\* for i, item in enumerate(right_items): one pass
RightItem ==
  /\ Running /\ loop = "right_items" /\ i < Len(stmt.right_items)
  /\ prs' = [prs EXCEPT ![Len(prs)].shapes[3].paragraphs =
                          ItemPass(@, i, stmt.right_items[i + 1], 16, 6)]
  /\ i' = i + 1
  /\ UNCHANGED <<styles, attempts, stdout, module, other, gen, deck, cw, clock, run, pc, loop, elements, doc, files, returned>>

\* return slide
TwoColumnSlideReturn ==
  /\ Running /\ loop = "right_items" /\ i = Len(stmt.right_items)
  /\ loop' = ""
  /\ i' = 0
  /\ pc' = pc + 1
  /\ UNCHANGED <<styles, attempts, stdout, module, other, gen, deck, cw, clock, run, elements, doc, prs, files, returned>>

\* The content of the presentation file: its slides.
PptxFile(slides) == [written |-> TRUE, by |-> gen, slides |-> slides]

\* prs.save(output_path); print(...); return output_path
Save ==
  /\ At("save")
  /\ attempts' = attempts + 1
  /\ files' = [files EXCEPT ![PptxName] = PptxFile(prs)]
  /\ stdout' = Append(stdout, PptxName)
  /\ pc' = pc + 1
  /\ returned' = PptxName
  /\ UNCHANGED <<styles, module, other, gen, deck, cw, clock, run, loop, i, elements, doc, prs>>

\* prs.save(output_path) fails: the OSError leaves create_pitch_deck, nothing
\* is printed or returned
SaveFails ==
  /\ At("save")
  /\ attempts' = attempts + 1
  /\ files' \in FailedWrite(PptxName)
  /\ returned' = "OSError"
  /\ UNCHANGED <<styles, stdout, module, other, gen, deck, cw, clock, run, pc, loop, i,
                 elements, doc, prs>>

\* ------------------------------------------------------------ runs and time
\* The generator is run again (python3 scripts/generate_...py), a new
\* process: everything but the files and the clock starts afresh.
Rerun ==
  /\ returned # ""
  /\ run < MaxRuns
  /\ run' = run + 1
  /\ pc' = 1
  /\ loop' = ""
  /\ i' = 0
  /\ elements' = <<>>
  /\ doc' = NewDoc
  /\ prs' = <<>>
  /\ returned' = ""
  /\ styles' = NoStyles
  /\ attempts' = 0
  /\ stdout' = <<>>
  /\ UNCHANGED <<module, other, gen, deck, cw, clock, files>>

\* A day passes.  Only datetime.now() reads the clock, so the day changes
\* where a run can tell: between two runs, or before the statement that
\* reads it.
Tick ==
  /\ clock < MaxDay - 1
  /\ returned # "" \/ (pc <= Len(Script) /\ stmt.op = "ParagraphNow")
  /\ clock' = clock + 1
  /\ UNCHANGED <<styles, attempts, stdout, module, other, gen, deck, cw, run, pc, loop, i, elements, doc, prs, files, returned>>

\* (mutant of Switch) elements and prs are lists of the module, that the
\* invocations share
SwitchSharingLists ==
  /\ other' = Locals
  /\ pc' = other.pc /\ loop' = other.loop /\ i' = other.i
  /\ doc' = other.doc
  /\ styles' = other.styles /\ attempts' = other.attempts /\ returned' = other.returned
  /\ UNCHANGED <<elements, prs, stdout, module, gen, deck, cw, clock, run, files>>

\* Two invocations of the generator function in one process (two threads
\* calling create_pdf or create_pitch_deck): the one that runs is suspended
\* and the other resumed.  The locals of each go with it; the module-level
\* names, the clock, the output and the files are those of the process.
Switch ==
  /\ other' = Locals
  /\ pc' = other.pc /\ loop' = other.loop /\ i' = other.i
  /\ elements' = other.elements /\ doc' = other.doc /\ prs' = other.prs
  /\ styles' = other.styles /\ attempts' = other.attempts /\ returned' = other.returned
  /\ UNCHANGED <<stdout, module, gen, deck, cw, clock, run, files>>

Compose ==
  \/ DefineStyles
  \/ AppendSpacer \/ AppendParagraph \/ AppendParagraphNow \/ AppendPageBreak
  \/ AppendTable \/ TableRaises \/ RaiseNameError \/ ForEnter \/ ForBody \/ ForIfBody \/ ForExit

Render == Build \/ HandleFlowable \/ EndBuild \/ EndBuildFails

Slides ==
  \/ AddTitleSlide \/ ContentSlideBegin \/ ContentItem \/ ContentSlideReturn
  \/ TwoColumnSlideBegin \/ LeftItem \/ RightColumnBegin \/ RightItem
  \/ TwoColumnSlideReturn \/ Save \/ SaveFails

RunStep == Compose \/ Render \/ Slides

Next == RunStep \/ Rerun \/ Tick

Spec == Init /\ [][Next]_vars

\* Two invocations in one process, interleaved in any order, on the small
\* decks.
InitTwoRuns ==
  /\ Init
  /\ gen \in {"flow", "canvas"}
  /\ gen = "flow" => deck \in TwoRunDecks
TwoRuns == InitTwoRuns /\ [][RunStep \/ Switch]_vars

\* One run of a generator, from its start to its return, which nothing
\* suspends: a step of it that is enabled is eventually taken.
OneRun == Init /\ [][RunStep]_vars
FairOneRun == OneRun /\ WF_vars(RunStep)

\* The two PDF generators run as two processes (python3
\* scripts/generate_final_pitch_deck.py and python3
\* scripts/generate_pitch_deck_pdf.py) in one directory: the process that
\* runs is suspended and the other resumed, each with its own generator and
\* locals; the files are those of the directory.  The processes meet at the
\* file only, so that a process is suspended only where it is about to open
\* the file, where it is about to write it, or when it has ended.
SwitchProcess ==
  /\ gen \in {"final", "pdf"}
  /\ \/ returned # ""
     \/ /\ pc <= Len(Script) /\ stmt.op = "build"
        /\ doc.state = "saving" \/ (doc.state = "building" /\ doc.flowables = <<>>)
  /\ gen' = IF gen = "final" THEN "pdf" ELSE "final"
  /\ other' = Locals
  /\ pc' = other.pc /\ loop' = other.loop /\ i' = other.i
  /\ elements' = other.elements /\ doc' = other.doc /\ prs' = other.prs
  /\ styles' = other.styles /\ attempts' = other.attempts /\ returned' = other.returned
  /\ UNCHANGED <<stdout, module, deck, cw, clock, run, files>>

\* The statements of the three scripts, none of which raises.
ComposeDeck ==
  \/ DefineStyles
  \/ AppendSpacer \/ AppendParagraph \/ AppendParagraphNow \/ AppendPageBreak
  \/ AppendTable \/ ForEnter \/ ForBody \/ ForIfBody \/ ForExit

\* The three generators as processes: the slide generator alone, the two
\* PDF generators side by side, interleaved in any order.
InitProcesses == Init /\ gen \in RealGens
Processes ==
  InitProcesses /\ [][ComposeDeck \/ Build \/ HandleFlowable \/ OpenFile \/ WriteFile
                        \/ Slides \/ SwitchProcess]_vars

\* ------------------------------------------------------------ the artifacts
\* The pages of the document so far: those ended and the one open.
AllPages == doc.pages \o (IF doc.open THEN <<doc.page>> ELSE <<>>)

\* Everything placed so far, in reading order.
PlacedSeq == Flatten(AllPages)

\* The flowables a statement appends.
ElementsOf(s) ==
  CASE s.op \in {"For", "ForIf"} -> Len(s.items)
    [] s.op \in {"Spacer", "Paragraph", "ParagraphNow", "PageBreak", "Table"} -> 1
    [] OTHER -> 0

\* The index in elements of the first flowable statement k appends.
FirstIndex(k) == 1 + SumSeq([j \in 1..(k - 1) |-> ElementsOf(Script[j])])

\* The elements whose text is made from datetime.now().
StampedSrcs == {FirstIndex(k) : k \in {j \in 1..Len(Script) : Script[j].op = "ParagraphNow"}}

\* A file with the text of the date-stamped paragraphs blanked.
MaskPage(page, stamped) ==
  [j \in 1..Len(page) |->
     IF page[j].src \in stamped THEN [page[j] EXCEPT !.f.text = ""] ELSE page[j]]
Mask(file) ==
  IF file.written /\ "pages" \in DOMAIN file
  THEN LET stamped == StampedSrcs
       IN [file EXCEPT !.pages = [p \in 1..Len(file.pages) |-> MaskPage(file.pages[p], stamped)]]
  ELSE file

\* ------------------------------------------------------------------- claims

\* C1 (as stated): a file a generator has written is written again with the
\* same content by every later run of it, whatever the time of each run.
C1_SameArtifactWheneverRun ==
  [][\A n \in DOMAIN files :
       (files[n].written /\ files'[n].written) => files'[n] = files[n]]_vars

\* C1 (amended): a later run writes the same content except for the text of
\* the paragraphs made from datetime.now() (the "Submitted:" line of
\* generate_final_pitch_deck.py); a generator with no such paragraph
\* (generate_pitch_deck_pdf.py, generate_pitch_deck.py) writes identical files.
C1_SameArtifactButDateStamp ==
  [][\A n \in DOMAIN files : (files[n].written /\ files'[n].written) =>
        /\ Mask(files'[n]) = Mask(files[n])
        /\ StampedSrcs = {} => files'[n] = files[n]]_vars

\* C1 witness: the final generator has written its file a second time, a day
\* after the clock's first day.
C1_SecondRunNextDay ==
  /\ gen = "final" /\ run = 2 /\ returned = PdfName /\ clock = 1
  /\ files[PdfName].pages[1][10].f.text = "Submitted: December 01, 2025"

\* The blocks a statement authors, in order: the kind of each and its text
\* (for a table, the text of its first header cell).
Block(kind, text, stamp) == [kind |-> kind, text |-> text, stamp |-> stamp]
Authored(s) ==
  CASE s.op = "Spacer" -> <<Block("Spacer", "", "")>>
    [] s.op = "Paragraph" -> <<Block("Paragraph", s.text, "")>>
    [] s.op = "ParagraphNow" -> <<Block("Paragraph", s.prefix, s.format)>>
    [] s.op = "PageBreak" -> <<Block("PageBreak", "", "")>>
    [] s.op = "Table" -> <<Block("Table", s.data[1][1][1], "")>>
    [] s.op = "For" -> [k \in 1..Len(s.items) |-> Block("Paragraph", s.items[k], "")]
    [] s.op = "ForIf" -> [k \in 1..Len(s.items) |->
                            IF s.items[k] = "" THEN Block("Spacer", "", "")
                            ELSE Block("Paragraph", s.items[k], "")]
    [] OTHER -> <<>>

AuthoredBlocks == Flatten([k \in 1..Len(Script) |-> Authored(Script[k])])

\* Flowable f is the rendering of authored block b.
Renders(f, b) ==
  /\ f.kind = b.kind
  /\ f.kind = "Paragraph" =>
       IF b.stamp = "" THEN f.text = b.text
       ELSE \E c \in 0..(MaxDay - 1) : f.text = b.text \o strftime(Date(c), b.stamp)
  /\ f.kind = "Table" => f.data[1][1][1] = b.text

\* The text frame of shape k of slide s, as texts.
Texts(s, k) == [j \in 1..Len(prs[s].shapes[k].paragraphs) |-> prs[s].shapes[k].paragraphs[j].text]

\* The items of the list that fills shape k of the slide statement c builds.
ItemsOf(c, k) ==
  CASE c.op = "add_content_slide" /\ k = 2 -> c.content_items
    [] c.op = "add_two_column_slide" /\ k = 2 -> c.left_items
    [] c.op = "add_two_column_slide" /\ k = 3 -> c.right_items
    [] c.op = "add_title_slide" /\ k = 1 -> <<c.title>>
    [] c.op = "add_title_slide" /\ k = 2 -> <<c.subtitle>>
    [] OTHER -> <<c.title>>

\* The passes the loop over the items of shape k of slide s has made.
Passes(s, k) ==
  IF s = Len(prs) /\ loop # ""
  THEN (IF k = Len(prs[s].shapes) THEN i ELSE Len(ItemsOf(Script[s], k)))
  ELSE Len(ItemsOf(Script[s], k))

\* C2: the rendered order is the authoring order.  Flow: element k of
\* elements is the k-th authored block, and what the build has placed reads
\* in the order of elements (the parts of a split block in sequence).
\* Canvas: slide s is built by the s-th call, its shapes are in creation
\* order (title, then left, then right), and paragraph j of a text frame
\* carries item j.
C2_OrderPreserved ==
  /\ gen \in FlowGens =>
       LET authored == AuthoredBlocks
           placed == PlacedSeq
       IN /\ Len(elements) <= Len(authored)
          /\ \A k \in 1..Len(elements) : Renders(elements[k], authored[k])
          /\ returned = PdfName => Len(elements) = Len(authored)
          /\ \A j \in 1..Len(placed) : placed[j].f = elements[placed[j].src]
          /\ \A j \in 1..(Len(placed) - 1) :
               \/ placed[j].src < placed[j + 1].src
               \/ /\ placed[j].src = placed[j + 1].src
                  /\ placed[j].to + 1 = placed[j + 1].from
  /\ gen \in CanvasGens =>
       /\ Len(prs) <= Len(Script) - 1
       /\ \A s \in 1..Len(prs) :
            /\ Texts(s, 1)[1] = Script[s].title
            /\ \A k \in 2..Len(prs[s].shapes) :
                 /\ prs[s].shapes[k - 1].left <= prs[s].shapes[k].left
                 /\ prs[s].shapes[k - 1].top <= prs[s].shapes[k].top
                 /\ \A j \in 1..Passes(s, k) : Texts(s, k)[j] = ItemsOf(Script[s], k)[j]

\* C2 witness: the final generator has composed and built its whole document,
\* the items of its first list in their places.
C2_FinalDeckBuilt ==
  /\ gen = "final" /\ returned = PdfName
  /\ Len(elements) = Len(AuthoredBlocks)
  /\ elements[14].text = FinalScript[14].items[1]
  /\ elements[26].text = FinalScript[14].items[13]
  /\ Len(PlacedSeq) > 100

\* C3: an explicit PageBreak forces a page boundary: the block appended
\* right after a PageBreak is the first thing on a new page, and no two
\* blocks with a PageBreak between them are on the same page.
C3_BreakForcesNewPage ==
  gen \in FlowGens =>
    LET pages == AllPages
    IN \A p \in 1..Len(pages) : \A j \in 1..Len(pages[p]) :
         LET e == pages[p][j]
         IN /\ (e.src > 1 /\ elements[e.src - 1].kind = "PageBreak" /\ e.from = 1) =>
                 (j = 1 /\ p > 1)
            /\ \A j2 \in 1..(j - 1) :
                 \A b \in (pages[p][j2].src)..(e.src) : elements[b].kind # "PageBreak"

\* C3 witness: a built document whose second page starts with the block
\* appended right after the first PageBreak, the first page holding blocks.
C3_PageStartsAfterBreak ==
  /\ gen \in FlowGens /\ doc.state = "built"
  /\ Len(doc.pages) >= 2
  /\ doc.pages[1] # <<>> /\ doc.pages[2] # <<>>
  /\ doc.pages[2][1].src > 1
  /\ elements[doc.pages[2][1].src - 1].kind = "PageBreak"

NumBreaks(es) == Cardinality({k \in 1..Len(es) : es[k].kind = "PageBreak"})

\* The calls of slide functions the script makes.
Calls ==
  Cardinality({k \in 1..Len(Script) :
                 Script[k].op \in {"add_title_slide", "add_content_slide", "add_two_column_slide"}})

\* C4 (as stated): the page count of a built document is the number of its
\* PageBreaks plus the number of overflow boundaries, and the slide count is
\* the number of slide groupings.
C4_PagesAreBoundaries ==
  /\ doc.state = "built" => Len(doc.pages) = NumBreaks(elements) + doc.overflows
  /\ (gen \in CanvasGens /\ returned = PptxName) => Len(prs) = Calls

\* C4 (amended): the page count of a built document is the number of its
\* PageBreaks, plus the number of overflow boundaries, plus one for the page
\* the build's end flushes when the sequence does not end with a PageBreak;
\* the slide count is the number of calls of the slide functions.
C4_PagesAreBoundariesAndLastPage ==
  /\ doc.state = "built" =>
       /\ Len(doc.pages) = NumBreaks(elements) + doc.overflows
                           + (IF elements # <<>> /\ Last(elements).kind # "PageBreak"
                              THEN 1 ELSE 0)
       /\ files[PdfName].pages = doc.pages
  /\ (gen \in CanvasGens /\ returned = PptxName) =>
       /\ Len(prs) = Calls
       /\ files[PptxName].slides = prs

\* C4 witness: the final generator's document is built, with boundaries of
\* both kinds: 12 PageBreaks and at least two overflows.
C4_BuiltWithBreaksAndOverflows ==
  /\ gen = "final" /\ doc.state = "built"
  /\ NumBreaks(elements) = 12 /\ doc.overflows >= 2
  /\ Len(doc.pages) = 13 + doc.overflows

\* A placed piece is a whole block.
Whole(e) == e.from = 1 /\ e.to = Units(e.f)

Overflowing ==
  /\ At("build") /\ doc.state = "building" /\ doc.flowables # <<>>
  /\ Head(doc.flowables).f.kind # "PageBreak"
  /\ Height(Head(doc.flowables)) + SpaceAbove(BeginPage(doc), Head(doc.flowables))
       > BeginPage(doc).y

\* A step of the build's loop.
HandleStep ==
  /\ doc.state = "building" /\ doc.flowables # <<>>
  /\ doc' # doc /\ doc'.state \in {"building", "LayoutError"}

\* The step ends the page as it was and leaves e whole as the next to place.
PushedWhole(d, e) ==
  /\ doc'.state = "building"
  /\ doc'.pages = Append(doc.pages, d.page) /\ ~doc'.open
  /\ Len(doc'.flowables) = Len(doc.flowables)
  /\ Placed(Head(doc'.flowables)) = Placed(e)

UnitsPlaced(k) ==
  UNION {PlacedSeq[j].from .. PlacedSeq[j].to :
           j \in {x \in 1..Len(PlacedSeq) : PlacedSeq[x].src = k}}

\* Every authored block other than a PageBreak is on the pages, all of it.
NothingMissing ==
  \A k \in 1..Len(elements) :
    elements[k].kind # "PageBreak" =>
      /\ \E j \in 1..Len(PlacedSeq) : PlacedSeq[j].src = k
      /\ UnitsPlaced(k) = 1..Units(elements[k])

Complete(s) == s < Len(prs) \/ loop = ""

\* C8: the canvas backend never splits: each call of add_title_slide,
\* add_content_slide or add_two_column_slide appends exactly one slide
\* whatever the items passed, so the slides are the calls made so far, and
\* every item of a call is a paragraph of that call's slide.
C8_OneSlidePerCall ==
  gen \in CanvasGens =>
    /\ Len(prs) = Min(pc - 1, Calls) + (IF loop # "" THEN 1 ELSE 0)
    /\ \A s \in 1..Len(prs) :
         /\ Len(prs[s].shapes) <= 3
         /\ \A k \in 2..Len(prs[s].shapes) :
              /\ Len(Texts(s, k)) = Max(1, Passes(s, k))
              /\ Complete(s) => Len(Texts(s, k)) = Max(1, Len(ItemsOf(Script[s], k)))
    /\ returned = PptxName => Len(files[PptxName].slides) = Calls

\* C8 witness: the presentation is saved with 17 slides for 17 calls, one
\* of them holding a list of ten items or more.
C8_LongListOnOneSlide ==
  /\ gen = "pptx" /\ returned = PptxName
  /\ Len(prs) = 17 /\ Calls = 17
  /\ \E s \in 1..Len(prs) : Len(prs[s].shapes[2].paragraphs) >= 10

\* The statements that loop over a list of items.
Lists == {k \in 1..Len(Script) : Script[k].op \in {"For", "ForIf"}}

\* The elements the items of list k have been made into so far.
ItemElements(k) ==
  LET first == FirstIndex(k)
  IN [j \in 1..Min(Len(Script[k].items), Len(elements) - first + 1) |-> elements[first + j - 1]]

\* C9 (as stated): in every list of both backends an empty item is made a
\* spacer and never a paragraph, and every other item is made a paragraph.
C9_EmptyItemIsSpacerEverywhere ==
  /\ gen \in FlowGens =>
       \A k \in Lists :
         LET made == ItemElements(k)
         IN \A j \in 1..Len(made) :
              made[j].kind = (IF Script[k].items[j] = "" THEN "Spacer" ELSE "Paragraph")
  /\ gen \in CanvasGens =>
       \A s \in 1..Len(prs) : \A k \in 2..Len(prs[s].shapes) :
         Script[s].op # "add_title_slide" =>
           \A j \in 1..Passes(s, k) : ItemsOf(Script[s], k)[j] # ""

\* C9 (amended): the loops of generate_final_pitch_deck.py that test
\* item == "" make an empty item a Spacer of the loop's height and every
\* other item one paragraph, so their paragraphs are their non-empty items.
\* A loop without the test makes every item a paragraph.  The slide
\* functions make every item, empty or not, one paragraph of the text frame,
\* an empty item being a paragraph with no text.
C9_EmptyItemIsSpacerWhereTested ==
  /\ gen \in FlowGens =>
       \A k \in Lists :
         LET made == ItemElements(k)
         IN \A j \in 1..Len(made) :
              IF Script[k].op = "ForIf" /\ Script[k].items[j] = ""
              THEN made[j] = Spacer(1, Script[k].height)
              ELSE made[j] = Paragraph(Script[k].items[j], Script[k].style)
  /\ gen \in CanvasGens =>
       \A s \in 1..Len(prs) : \A k \in 2..Len(prs[s].shapes) :
         Script[s].op # "add_title_slide" =>
           /\ \A j \in 1..Passes(s, k) : Texts(s, k)[j] = ItemsOf(Script[s], k)[j]
           /\ Complete(s) => Len(Texts(s, k)) = Max(1, Len(ItemsOf(Script[s], k)))

\* C9 witness: the final generator has returned, and a list of its holds an
\* empty item made a Spacer next to an item made a paragraph.
C9_EmptyItemMadeSpacer ==
  /\ gen = "final" /\ returned = PdfName
  /\ \E k \in Lists : \E j \in 2..Len(Script[k].items) :
       /\ Script[k].op = "ForIf" /\ Script[k].items[j] = ""
       /\ ItemElements(k)[j].kind = "Spacer"
       /\ ItemElements(k)[j - 1].kind = "Paragraph"

\* The styles of the paragraphs that title a page.
TitleStyles == {"title_style", "heading_style"}

\* The title of a page: the text of its first title or heading paragraph.
PageTitle(page) ==
  LET ks == {j \in 1..Len(page) : page[j].f.kind = "Paragraph" /\ page[j].f.style \in TitleStyles}
  IN IF ks = {} THEN "" ELSE page[CHOOSE j \in ks : \A x \in ks : j <= x].f.text

PageTitles == [p \in 1..Len(doc.pages) |-> PageTitle(doc.pages[p])]
SlideTitles == [s \in 1..Len(prs) |-> Texts(s, 1)[1]]

\* The titles create_pitch_deck gives its slides and the titles and
\* headings create_pdf of generate_pitch_deck_pdf.py appends, in order.
IsTitleStatement(st) == st.op = "Paragraph" /\ st.style \in TitleStyles
IsSlideStatement(st) == st.op # "save"
AuthoredSlideTitles ==
  LET calls == SelectSeq(PptxScript, IsSlideStatement)
  IN [s \in 1..Len(calls) |-> calls[s].title]
AuthoredPageTitles ==
  LET heads == SelectSeq(PdfScript, IsTitleStatement)
  IN [p \in 1..Len(heads) |-> heads[p].text]

Range(f) == {f[x] : x \in DOMAIN f}

\* C10 (as stated): the slides of create_pitch_deck and the pages of
\* create_pdf in generate_pitch_deck_pdf.py are as many and correspond one
\* to one, in order, by title.
C10_SlidesAndPagesOneToOne ==
  /\ (gen = "pdf" /\ returned = PdfName) => PageTitles = AuthoredSlideTitles
  /\ (gen = "pptx" /\ returned = PptxName) => SlideTitles = AuthoredPageTitles

\* C10 (amended): create_pitch_deck builds 17 slides and, no page
\* overflowing, create_pdf of generate_pitch_deck_pdf.py 16 pages.  Slides 1
\* to 15 and pages 1 to 15 correspond in order by title, slide 16 ("Team &
\* Resources") has no page, and slide 17 corresponds to page 16.
C10_SlidesAndPagesButOne ==
  /\ (gen = "pdf" /\ returned = PdfName /\ doc.overflows = 0) =>
       /\ Len(PageTitles) = 16 /\ Len(AuthoredSlideTitles) = 17
       /\ \A p \in 1..15 : PageTitles[p] = AuthoredSlideTitles[p]
       /\ PageTitles[16] = AuthoredSlideTitles[17]
       /\ AuthoredSlideTitles[16] \notin Range(PageTitles)
  /\ (gen = "pptx" /\ returned = PptxName) =>
       /\ Len(SlideTitles) = 17 /\ Len(AuthoredPageTitles) = 16
       /\ \A s \in 1..15 : SlideTitles[s] = AuthoredPageTitles[s]
       /\ SlideTitles[17] = AuthoredPageTitles[16]
       /\ SlideTitles[16] \notin Range(AuthoredPageTitles)

\* C10 witness: generate_pitch_deck_pdf.py has written its 16 pages, none
\* from an overflow, the last titled as the last slide is.
C10_PdfDeckWritten ==
  /\ gen = "pdf" /\ returned = PdfName /\ doc.overflows = 0
  /\ Len(doc.pages) = 16
  /\ PageTitle(doc.pages[16]) = PptxScript[17].title
  /\ PageTitle(doc.pages[2]) = PptxScript[2].title

\* What a run raises when it fails before the write of its output file.
EarlyFailures == {"LayoutError", "NameError", "ValueError"}

\* C11: no partial output.  The output file changes only in the one write of
\* a run, made when every block has been composed (and, for a PDF, laid
\* out), and that step ends the run; nothing is written while blocks are
\* appended or laid out, and a run that fails before its write has attempted
\* none and leaves the destination as it was.
C11_NoPartialOutput ==
  [][/\ files' # files =>
          /\ attempts = 0 /\ attempts' = 1
          /\ returned = "" /\ returned' # ""
          /\ gen \in FlowGens =>
               /\ stmt.op = "build" /\ pc = Len(Script)
               /\ Len(elements) = Len(AuthoredBlocks)
               /\ doc.flowables = <<>>
          /\ gen \in CanvasGens =>
               /\ stmt.op = "save" /\ pc = Len(Script)
               /\ Len(prs) = Calls
     /\ returned' \in EarlyFailures => (files' = files /\ attempts' = 0)
     /\ attempts' \in {attempts, attempts + 1} \/ attempts' = 0]_vars

\* C11 witness: a build has failed with a page already laid out, and the
\* destination holds no file: no write was attempted.
C11_FailedWithNothingWritten ==
  /\ returned = "LayoutError" /\ attempts = 0
  /\ Len(doc.pages) >= 1 /\ doc.pages[1] # <<>>
  /\ files[PdfName] = NoFile

\* A Table statement one of whose rows has not as many cells as the
\* statement gives column widths.
Ragged(st) ==
  /\ st.op = "Table"
  /\ \E r \in 1..Len(st.data) : Len(st.data[r]) # Len(st.colWidths)

C14_StylesImmutable ==
  [][/\ (styles # NoStyles /\ ~(returned # "" /\ returned' = "")) => styles' = styles
     /\ (elements' # <<>> \/ doc'.state # "idle") =>
          /\ DOMAIN styles' = DOMAIN Styles
          /\ \A n \in DOMAIN Styles : styles'[n] = Styles[n]
          /\ gen \in {"final", "flow"} =>
               DOMAIN styles' = {"title_style", "subtitle_style", "heading_style",
                                 "heading2_style", "body_style", "bullet_style"}
     /\ \A e \in 1..Len(elements') :
          elements'[e].kind = "Paragraph" =>
            /\ elements'[e].style \in DOMAIN styles'
            /\ Lines(elements'[e].text, styles'[elements'[e].style])
                 = Lines(elements'[e].text, Styles[elements'[e].style])]_vars

\* C14 witness: a document is built in which two blocks, on different pages,
\* name the same style.
C14_SameStyleOnTwoPages ==
  /\ returned = PdfName /\ styles = Styles
  /\ \E p, q \in 1..Len(doc.pages) : \E a \in 1..Len(doc.pages[p]) : \E b \in 1..Len(doc.pages[q]) :
       /\ p < q
       /\ doc.pages[p][a].f.kind = "Paragraph" /\ doc.pages[q][b].f.kind = "Paragraph"
       /\ doc.pages[p][a].src # doc.pages[q][b].src
       /\ doc.pages[p][a].f.style = doc.pages[q][b].f.style

\* doc.build(elements) run from its call to its end with nothing else
\* running: the document it leaves.
RECURSIVE Laid(_)
Laid(d) ==
  IF d.state # "building" THEN d
  ELSE IF d.flowables = <<>> THEN endBuild(d)
  ELSE Laid(handle_flowable(d))
BuiltAlone ==
  Laid([NewDoc EXCEPT !.state = "building",
                      !.flowables = [k \in 1..Len(elements) |-> Entry(k)]])

TwoColumnSlides ==
  {s \in 1..Len(prs) : Script[s].op = "add_two_column_slide" /\ Len(prs[s].shapes) = 3}

\* C16: a TwoColumn block is two columns side by side, of equal width, in
\* the left/right order: the left box and the right box have the same
\* width, the same top and the same height, the left box ends left of where
\* the right box begins with a gutter of 0.4 in between them on every
\* slide, and the paragraphs of the left box are the left_items in order
\* and those of the right box the right_items in order, none of one list in
\* the other's box.
C16_TwoEqualColumns ==
  gen \in CanvasGens =>
    \A s \in TwoColumnSlides :
      LET left_box == prs[s].shapes[2]
          right_box == prs[s].shapes[3]
          left_items == Script[s].left_items
          right_items == Script[s].right_items
      IN /\ left_box.width = right_box.width
         /\ left_box.top = right_box.top /\ left_box.height = right_box.height
         /\ left_box.left + left_box.width < right_box.left
         /\ right_box.left - (left_box.left + left_box.width) = Inches(4)
         /\ left_box.left >= 0 /\ right_box.left + right_box.width <= Inches(100)
         /\ Len(left_box.paragraphs) = Max(1, Len(left_items))
         /\ \A j \in 1..Len(left_items) : left_box.paragraphs[j].text = left_items[j]
         /\ Len(right_box.paragraphs) = Max(1, Passes(s, 3))
         /\ \A j \in 1..Passes(s, 3) : right_box.paragraphs[j].text = right_items[j]
         /\ Complete(s) => Len(right_box.paragraphs) = Max(1, Len(right_items))

\* C16 witness: a two-column slide is complete whose two lists differ, each
\* in its own box.
C16_TwoListsInTwoBoxes ==
  /\ gen \in CanvasGens
  /\ \E s \in TwoColumnSlides :
       /\ Complete(s)
       /\ Len(Script[s].left_items) >= 2 /\ Len(Script[s].right_items) >= 2
       /\ Script[s].left_items # Script[s].right_items
       /\ Texts(s, 2) = Script[s].left_items
       /\ Texts(s, 3) = Script[s].right_items

\* The height one cell of row r asks for: its lines and the paddings of the
\* row (Table._calc_height takes the largest of these over the row).
CellHeight(t, r, c) ==
  Len(t.data[r][c]) * TableDefaults.leading + TableDefaults.topPadding
  + (IF RowSetting(t, "BOTTOMPADDING", r - 1, -1) = -1
     THEN TableDefaults.bottomPadding
     ELSE RowSetting(t, "BOTTOMPADDING", r - 1, -1) * pt)

\* The row heights of table t obey the law: the height of each row is that
\* of its tallest cell.
TallestCell(t) ==
  \A r \in 1..Len(t.data) :
    /\ \A c \in 1..Len(t.data[r]) : CellHeight(t, r, c) <= RowHeight(t, r)
    /\ \E c \in 1..Len(t.data[r]) : CellHeight(t, r, c) = RowHeight(t, r)

Background(t, r) ==
  LET n == Len(t.data)
      ks == {k \in 1..Len(t.cmds) : /\ t.cmds[k][1] \in {"BACKGROUND", "ROWBACKGROUNDS"}
                                     /\ Covers(t.cmds[k], r, n)}
      last == t.cmds[CHOOSE k \in ks : \A j \in ks : j <= k]
  IN IF ks = {} THEN <<"", 0>>
     ELSE IF last[1] = "BACKGROUND" THEN <<last[4][1], 0>>
     ELSE <<last[4][1], (r - Norm(last[2][2], n)) % 2>>

\* The style of row r (from 0) of table t once every command has been
\* applied in order (CellStyle's defaults where no command covers the row).
RowStyle(t, r) ==
  [background |-> Background(t, r),
   textColor |-> RowSetting(t, "TEXTCOLOR", r, "black"),
   fontName |-> RowSetting(t, "FONTNAME", r, "Helvetica"),
   fontSize |-> RowSetting(t, "FONTSIZE", r, 10)]

\* C18: in every table the header row has a style distinct from the body
\* rows.  When the table is appended, its commands applied in order, row 0 has the PRIMARY background,
\* LIGHT text and Helvetica-Bold (at 14 pt or 12 pt), and every later row
\* the body style: a white background (the first colour of ROWBACKGROUNDS
\* where that command is given), TEXT_DARK text and Helvetica (at 11 pt
\* under a header of 14, at 10 pt under a header of 12).  A command
\* whose range begins at row 1 does not reach row 0 and a command whose
\* range is row 0 reaches no later row; the commands that span the whole
\* table (ALIGN, VALIGN, GRID) set the header and the body alike.
C18_HeaderRowDistinct ==
  [][(Len(elements') = Len(elements) + 1 /\ Last(elements').kind = "Table") =>
       LET t == Last(elements')
           n == Len(t.data)
       IN /\ n >= 2
          /\ RowStyle(t, 0).background = <<"PRIMARY", 0>>
          /\ RowStyle(t, 0).textColor = "LIGHT"
          /\ RowStyle(t, 0).fontName = "Helvetica-Bold"
          /\ RowStyle(t, 0).fontSize \in {12, 14}
          /\ \A r \in 1..(n - 1) :
               /\ RowStyle(t, r).background \in
                    {<<"colors.white", 0>>,
                     <<"[colors.white, colors.lightgrey]", (r - 1) % 2>>}
               /\ RowStyle(t, r).textColor = "TEXT_DARK"
               /\ RowStyle(t, r).fontName = "Helvetica"
               /\ RowStyle(t, r).fontSize =
                    RowStyle(t, 0).fontSize - (IF RowStyle(t, 0).fontSize = 14 THEN 3 ELSE 2)
               /\ RowStyle(t, r).background # RowStyle(t, 0).background
          /\ \A j \in 1..Len(t.cmds) :
               LET cmd == t.cmds[j]
               IN \/ /\ Norm(cmd[2][2], n) >= 1
                     /\ ~Covers(cmd, 0, n)
                  \/ /\ Norm(cmd[3][2], n) = 0
                     /\ \A r \in 1..(n - 1) : ~Covers(cmd, r, n)
                  \/ /\ cmd[1] \in {"ALIGN", "VALIGN", "GRID"}
                     /\ \A r \in 0..(n - 1) : Covers(cmd, r, n)]_vars

\* C18 witness: generate_pitch_deck_pdf.py has built its document, a table
\* with ROWBACKGROUNDS placed whole, header and body.
C18_StyledTablePlaced ==
  /\ gen = "pdf" /\ returned = PdfName
  /\ \E j \in 1..Len(PlacedSeq) :
       /\ PlacedSeq[j].f.kind = "Table"
       /\ PlacedSeq[j].from = 1 /\ PlacedSeq[j].to = 2
       /\ \E c \in 1..Len(PlacedSeq[j].f.cmds) : PlacedSeq[j].f.cmds[c][1] = "ROWBACKGROUNDS"
       /\ RowStyle(PlacedSeq[j].f, 0) # RowStyle(PlacedSeq[j].f, 1)

\* C19: a failure to write the artifact is surfaced and never retried.  A
\* run attempts the write at most once.  When the attempt fails the error
\* leaves create_pdf / create_pitch_deck from the statement of the write:
\* nothing is printed, no file name is returned, and the run makes no other
\* step, so the file stays as the failure left it.  The message is printed
\* and the name returned only by a run whose one attempt succeeded.
C19_WriteFailureSurfaced ==
  [][/\ attempts' \in {0, 1}
     /\ (returned = "" /\ returned' = "OSError") =>
          /\ stmt.op \in {"build", "save"}
          /\ attempts = 0 /\ attempts' = 1
          /\ stdout' = <<>> /\ pc' = pc
     /\ returned = "OSError" =>
          /\ files' = files
          /\ returned' = "OSError" \/ (returned' = "" /\ run' = run + 1)
     /\ returned' \in {PdfName, PptxName} =>
          (attempts' = 1 /\ stdout' = <<returned'>> /\ files'[returned'].written)]_vars

\* C19 witness: the final deck is laid out on its pages, the write has
\* failed once, and the run has ended with the error, nothing printed and
\* no file there.
C19_WriteFailedOnce ==
  /\ gen = "final" /\ returned = "OSError" /\ attempts = 1
  /\ doc.state = "OSError" /\ Len(doc.pages) >= 13
  /\ stdout = <<>> /\ files[PdfName] = NoFile

\* The step takes a flowable that is not a PageBreak and ends the page.
OverflowTransition ==
  /\ HandleStep /\ Head(doc.flowables).f.kind # "PageBreak"
  /\ Len(doc'.pages) = Len(doc.pages) + 1

RECURSIVE Filled(_, _, _)
Filled(frame, items, k) ==
  IF k >= Len(items) THEN frame
  ELSE Filled(ItemPass(frame, k, items[k + 1], 16, 6), items, k + 1)
ColumnAlone(left, items) ==
  [add_textbox(left, Inches(12), Inches(45), Inches(60)) EXCEPT
     !.paragraphs = Filled(@, items, 0)]

\* C21: the columns of a TwoColumn block are independent.  On every
\* two-column slide the left box, with its position, size and paragraphs, is
\* what the left_items alone make, and the right box what the right_items
\* alone make, whatever the other list holds and however long it is; while
\* the right loop runs, the left box stays as the left loop left it.
C21_ColumnsIndependent ==
  gen \in CanvasGens =>
    \A s \in TwoColumnSlides :
      /\ prs[s].shapes[2] = ColumnAlone(Inches(3), Script[s].left_items)
      /\ Complete(s) => prs[s].shapes[3] = ColumnAlone(Inches(52), Script[s].right_items)
      /\ ~Complete(s) =>
           prs[s].shapes[3] = ColumnAlone(Inches(52), SubSeq(Script[s].right_items, 1, i))

\* C21 witness: a two-column slide is complete whose left list has two
\* items and whose right list has none: two paragraphs on the left, the one
\* empty paragraph of a new text frame on the right.
C21_ListsOfUnequalLength ==
  /\ gen \in CanvasGens
  /\ \E s \in TwoColumnSlides :
       /\ Complete(s)
       /\ Len(Script[s].left_items) = 2 /\ Script[s].right_items = <<>>
       /\ Len(prs[s].shapes[2].paragraphs) = 2
       /\ prs[s].shapes[3].paragraphs = <<EmptyParagraph>>
       /\ prs[s].shapes[3].top = prs[s].shapes[2].top

\* The slides that add_content_slide or add_two_column_slide builds.
BarSlides ==
  {s \in 1..Len(prs) : Script[s].op \in {"add_content_slide", "add_two_column_slide"}}

\* C22: the fixed offsets of the canvas mode.  On every slide built by
\* add_content_slide or add_two_column_slide the first shape is the title
\* bar, at the left and top edges of the slide, as wide as the slide and
\* 0.8 in high, whatever the title; every other shape is a body text box
\* whose top is at 1.2 in, whatever the number of items put in it; so the
\* body begins below the bar and never overlaps it.
C22_FixedOffsets ==
  gen \in CanvasGens =>
    \A s \in BarSlides :
      LET bar == prs[s].shapes[1]
      IN /\ bar.shape = "rectangle"
         /\ bar.left = 0 /\ bar.top = 0
         /\ bar.width = Inches(100) /\ bar.height = Inches(8)
         /\ bar.paragraphs[1].text = Script[s].title
         /\ Len(prs[s].shapes) \in {2, 3}
         /\ \A k \in 2..Len(prs[s].shapes) :
              /\ prs[s].shapes[k].shape = "textbox"
              /\ prs[s].shapes[k].top = Inches(12)
              /\ prs[s].shapes[k].top >= bar.top + bar.height

\* C22 witness: the presentation is saved and holds a content slide and a
\* two-column slide of different titles, the first body box of one with
\* ten paragraphs or more and that of the other with fewer.
C22_SlidesOfDifferentTitlesAndLengths ==
  /\ gen = "pptx" /\ returned = PptxName
  /\ \E s, t \in BarSlides :
       /\ Script[s].op = "add_content_slide" /\ Script[t].op = "add_two_column_slide"
       /\ Script[s].title # Script[t].title
       /\ \/ Len(prs[s].shapes[2].paragraphs) >= 10 /\ Len(prs[t].shapes[2].paragraphs) < 10
          \/ Len(prs[t].shapes[2].paragraphs) >= 10 /\ Len(prs[s].shapes[2].paragraphs) < 10
       /\ prs[s].shapes[1].height = prs[t].shapes[1].height

\* The item loops of the slide functions, and the paragraphs of the text
\* frame that the loop running on the last slide of p fills.
ItemLoops == {"content_items", "left_items", "right_items"}
LoopFrame(p) == p[Len(p)].shapes[IF loop = "right_items" THEN 3 ELSE 2].paragraphs

\* C23: the paragraph index of the slide text frames.  When pass i of an
\* item loop begins the frame holds max(1, i) paragraphs; the pass adds one
\* unless i = 0, so that paragraph i is there when it is accessed, the last
\* of exactly i + 1; it receives item i and the paragraphs before it stay as
\* they were.  When the function returns the frame holds max(1, len(items))
\* paragraphs: one empty paragraph, not none, for an empty list.
C23_ParagraphIndexInRange ==
  [][/\ (returned = "" /\ loop \in ItemLoops /\ loop' = loop /\ i' = i + 1) =>
          LET items == stmt[loop]
          IN /\ i < Len(items)
             /\ Len(LoopFrame(prs)) = Max(1, i)
             /\ Len(LoopFrame(prs')) = i + 1
             /\ LoopFrame(prs')[i + 1].text = items[i + 1]
             /\ \A j \in 1..i : LoopFrame(prs')[j] = LoopFrame(prs)[j]
     /\ (returned = "" /\ loop \in ItemLoops /\ loop' # loop) =>
          LET items == stmt[loop]
          IN /\ i = Len(items)
             /\ Len(LoopFrame(prs)) = Max(1, Len(items))
             /\ items = <<>> => LoopFrame(prs) = <<EmptyParagraph>>
             /\ \A j \in 1..Len(items) : LoopFrame(prs)[j].text = items[j]]_vars

\* C23 witness: add_two_column_slide has returned from a slide whose right
\* list was empty, its frame holding the one empty paragraph, and whose
\* left frame holds a paragraph for each of two items or more.
C23_EmptyListLeavesOneParagraph ==
  /\ gen \in CanvasGens /\ loop = ""
  /\ \E s \in 1..Len(prs) :
       /\ Script[s].op = "add_two_column_slide" /\ Len(prs[s].shapes) = 3
       /\ Script[s].right_items = <<>> /\ Len(Script[s].left_items) >= 2
       /\ prs[s].shapes[3].paragraphs = <<EmptyParagraph>>
       /\ Len(prs[s].shapes[2].paragraphs) = Len(Script[s].left_items)

\* Shapes a and b have no point in common but on their edges.
Apart(a, b) ==
  \/ a.left + a.width <= b.left \/ b.left + b.width <= a.left
  \/ a.top + a.height <= b.top \/ b.top + b.height <= a.top

\* C24: every shape that add_title_slide, add_content_slide and
\* add_two_column_slide place lies within the slide of 10 in by 7.5 in that
\* create_pitch_deck sets, and the shapes of one slide do not overlap one
\* another: the title box and the subtitle box, the title bar and a body
\* box, the left column and the right column.
C24_ShapesWithinSlideAndApart ==
  gen \in CanvasGens =>
    \A s \in 1..Len(prs) :
      /\ \A k \in 1..Len(prs[s].shapes) :
           LET b == prs[s].shapes[k]
           IN /\ b.left >= 0 /\ b.top >= 0
              /\ b.width > 0 /\ b.height > 0
              /\ b.left + b.width <= slide_width
              /\ b.top + b.height <= slide_height
      /\ \A j, k \in 1..Len(prs[s].shapes) :
           j < k => Apart(prs[s].shapes[j], prs[s].shapes[k])

\* C24 witness: the presentation is saved with slides of the three kinds,
\* a two-column slide with its bar and both its boxes among them.
C24_ThreeKindsOfSlidesSaved ==
  /\ gen = "pptx" /\ returned = PptxName /\ files[PptxName].slides = prs
  /\ \E s, t, u \in 1..Len(prs) :
       /\ Script[s].op = "add_title_slide" /\ Len(prs[s].shapes) = 2
       /\ Script[t].op = "add_content_slide" /\ Len(prs[t].shapes) = 2
       /\ Script[u].op = "add_two_column_slide" /\ Len(prs[u].shapes) = 3

(* C25: in both create_pdf functions a PageBreak is never the first element
   handed to the flow backend, never the last one and never directly after
   another PageBreak; hence no page of the built document is empty, and the
   number of pages is the number of PageBreaks plus one plus the automatic
   overflow boundaries (with no overflow: the number of PageBreaks plus one). *)
IsBreak(e) == e.kind = "PageBreak"

C25_NoEmptyPageFromBreaks ==
  gen \in {"final", "pdf"} =>
    /\ elements # <<>> => ~IsBreak(elements[1])
    /\ \A k \in 1..(Len(elements) - 1) :
         ~(IsBreak(elements[k]) /\ IsBreak(elements[k + 1]))
    /\ doc.state # "idle" => elements # <<>> /\ ~IsBreak(Last(elements))
    /\ doc.state = "built" =>
         /\ \A p \in 1..Len(doc.pages) : doc.pages[p] # <<>>
         /\ Len(doc.pages) = NumBreaks(elements) + 1 + doc.overflows

(* The final deck has been built: its element list holds 12 PageBreaks, none
   of its pages is empty and it has 13 pages plus the overflow boundaries. *)
C25_DeckWithBreaksBuilt ==
  /\ gen = "final" /\ doc.state = "built"
  /\ NumBreaks(elements) = 12
  /\ doc.overflows > 0
  /\ Len(doc.pages) = 13 + doc.overflows
  /\ \A p \in 1..Len(doc.pages) : doc.pages[p] # <<>>

(* C26: every Table that the two create_pdf functions append is well-formed:
   it is given as many column widths as each of its rows (the header row
   included) has cells, so that Table() neither fills up a row nor changes
   the widths nor raises, and its widths sum to no more than the page width
   less the left and the right margin. *)
UsableWidth == pagesize.width - 2 * margin

WellFormed(data, colWidths) ==
  /\ \A r \in 1..Len(data) : Len(data[r]) = Len(colWidths)
  /\ SumSeq(colWidths) <= UsableWidth

TableAppended ==
  gen \in {"final", "pdf"} =>
    /\ returned' # "ValueError"
    /\ (Len(elements') = Len(elements) + 1 /\ Last(elements').kind = "Table") =>
         /\ stmt.op = "Table"
         /\ WellFormed(stmt.data, stmt.colWidths)
         /\ WellFormed(Last(elements').data, Last(elements').colWidths)
         /\ Last(elements').data = stmt.data
         /\ Last(elements').colWidths = stmt.colWidths

C26_TablesWellFormed == [][TableAppended]_vars

(* Both scripts have been run to the end with their three tables each, one
   of three columns among them, in the element list. *)
C26_ThreeTablesAppended ==
  /\ gen \in {"final", "pdf"} /\ doc.state = "built"
  /\ Cardinality({k \in 1..Len(elements) : elements[k].kind = "Table"}) = 3
  /\ \E k \in 1..Len(elements) :
       /\ elements[k].kind = "Table"
       /\ Len(elements[k].colWidths) = 3
       /\ Len(elements[k].data) >= 2

(* C27 (as stated): the slide generator writes only the .pptx file and the
   two PDF generators write only the one .pdf file; whenever a PDF generator
   finishes its write, in any sequence or interleaving of the runs of the
   two, the file holds the output of that run and nothing of the other. *)
WriteFinished == other' = other /\ returned = "" /\ returned' = PdfName

OwnDestination ==
  /\ files'[PptxName] # files[PptxName] =>
       gen = "pptx" /\ files'[PdfName] = files[PdfName]
  /\ files'[PdfName] # files[PdfName] =>
       gen \in {"final", "pdf"} /\ files'[PptxName] = files[PptxName]

C27_LastWriteAloneRetained ==
  [][OwnDestination /\ (WriteFinished => files'[PdfName] = PdfFile(doc'))]_vars

(* C27 (amended): each generator writes its own destination only, the two
   PDF generators the same file.  When a PDF generator finishes its write
   the file begins with the output of that run.  It is exactly that output
   when the other run has not opened the file yet or, more generally, has
   written nothing since this run opened the file, as in any sequence of
   runs; when the other run wrote between this run's open and its write and
   its output is the longer one, the end of it stays in the file behind the
   output of the run that wrote last. *)
PdfWriteFinished ==
  WriteFinished =>
    /\ files'[PdfName].written /\ files'[PdfName].by = gen
    /\ SubSeq(files'[PdfName].pages, 1, Len(doc'.pages)) = doc'.pages
    /\ other.doc.state \in {"idle", "building"} => files'[PdfName] = PdfFile(doc')
    /\ files[PdfName].pages = <<>> => files'[PdfName] = PdfFile(doc')
    /\ files'[PdfName] # PdfFile(doc') =>
         /\ other.returned = PdfName
         /\ Len(other.doc.pages) > Len(doc'.pages)
         /\ files'[PdfName].pages =
              doc'.pages \o SubSeq(other.doc.pages, Len(doc'.pages) + 1,
                                   Len(other.doc.pages))

C27_LastWriteAtHeadOfFile == [][OwnDestination /\ PdfWriteFinished]_vars

(* Both PDF generators have returned, each having opened the file before
   the other wrote: the file holds the output of the one that wrote last and,
   behind it, the last pages of the other's longer output. *)
C27_BothReturnedFileMixed ==
  /\ gen \in {"final", "pdf"}
  /\ returned = PdfName /\ other.returned = PdfName
  /\ files[PdfName].by = gen
  /\ Len(files[PdfName].pages) = Len(other.doc.pages)
  /\ Len(doc.pages) < Len(other.doc.pages)
  /\ SubSeq(files[PdfName].pages, 1, Len(doc.pages)) = doc.pages

============================================================================
